---- MODULE Spec2Model ----
(***************************************************************************)
(* Model of the loadstar installer (src/installer/src): the wizard state   *)
(* machine (wizard.rs), the interactive loop and its key handlers          *)
(* (main.rs), the background install thread (executor.rs, github.rs) and   *)
(* the mpsc channel between the thread and the loop.                       *)
(*                                                                         *)
(* Rust values are represented as follows: enum variants are strings,      *)
(* Option<T> is the empty tuple (None) or a 1-tuple (Some), a Vec is a     *)
(* sequence, a HashSet is a set, a String is a sequence of characters or,  *)
(* for fixed texts, a TLA+ string.  Indices are 0-based as in the source;  *)
(* a 0-based index k of a slice s is s[k + 1] here.                        *)
(***************************************************************************)
EXTENDS Integers, Sequences, FiniteSets, TLC

NoneV == << >>
Some(x) == << x >>

(***************************************************************************)
(* Bounds of the model.                                                    *)
(***************************************************************************)
\* number of catalog entries kept from the 79-entry CATALOG table
CatalogLen == 3
\* largest cursor_position / scroll_offset drawn for the unit-level states
MaxCursor == 1
\* largest scroll_offset the Review screen is scrolled to
MaxScroll == 1
\* number of selected catalog entries at which the user still confirms the
\* Review screen with the whole application running
MaxItems == 1
\* number of toggle_app calls followed in a unit-level run
MaxToggles == 3
\* the longest input list handed to run_install when lists in any order are followed
MaxList == 3

\* longest text of a process stream, in pieces, given to the result functions
MaxText == 3

(***************************************************************************)
(* catalog.rs                                                              *)
(***************************************************************************)
\* Category::all()
Category_all ==
    << "Shell", "Editor", "Git", "Terminal", "FileManager", "Search", "System",
       "Network", "Container", "Language", "Database", "Security",
       "Productivity", "Media", "Cloud", "AI" >>

\* Entries of CATALOG kept by the model, in catalog order.  install_method is
\* the variant of InstallMethod and pkg its argument; essential says whether
\* the tags contain "essential"; rank orders the entries by the bound that
\* first includes them.
CatalogTable ==
    << [id |-> "vscode", name |-> "Visual Studio Code", category |-> "Editor",
        install_method |-> "BrewCask", pkg |-> "visual-studio-code",
        essential |-> FALSE, rank |-> 2],
       [id |-> "git", name |-> "Git", category |-> "Git",
        install_method |-> "Brew", pkg |-> "git",
        essential |-> TRUE, rank |-> 1],
       [id |-> "gh", name |-> "GitHub CLI", category |-> "Git",
        install_method |-> "Brew", pkg |-> "gh",
        essential |-> FALSE, rank |-> 5],
       [id |-> "docker", name |-> "Docker", category |-> "Container",
        install_method |-> "BrewCask", pkg |-> "docker",
        essential |-> TRUE, rank |-> 6],
       [id |-> "rustup", name |-> "Rustup", category |-> "Language",
        install_method |-> "Script", pkg |-> "https://sh.rustup.rs",
        essential |-> FALSE, rank |-> 3],
       [id |-> "claude-code", name |-> "Claude Code", category |-> "AI",
        install_method |-> "Npm", pkg |-> "@anthropic-ai/claude-code",
        essential |-> FALSE, rank |-> 4] >>

CATALOG == SelectSeq(CatalogTable, LAMBDA a : a.rank <= CatalogLen)

CatalogIds == { CATALOG[i].id : i \in 1..Len(CATALOG) }

\* an id that names no catalog entry
UnknownId == "nonexistent"

AppIds == CatalogIds \cup { UnknownId }

apps_by_category(category) ==
    LET InCat(a) == a.category = category
    IN  SelectSeq(CATALOG, InCat)

essential_apps ==
    LET IsEssential(a) == a.essential
    IN  SelectSeq(CATALOG, IsEssential)

(***************************************************************************)
(* wizard.rs: WizardPhase                                                  *)
(***************************************************************************)
WizardPhase_all ==
    << "Boot", "Identity", "Shell", "DevTools", "Apps", "Review", "Install",
       "Complete" >>

WizardPhase == { WizardPhase_all[i] : i \in 1..Len(WizardPhase_all) }

\* position(|p| p == self).unwrap_or(0)
index(p) ==
    IF \E i \in 1..Len(WizardPhase_all) : WizardPhase_all[i] = p
    THEN (CHOOSE i \in 1..Len(WizardPhase_all) :
              /\ WizardPhase_all[i] = p
              /\ \A j \in 1..(i - 1) : WizardPhase_all[j] # p) - 1
    ELSE 0

next_off_by_one(p) ==
    LET current == index(p)
    IN  IF current + 2 < Len(WizardPhase_all)
        THEN Some(WizardPhase_all[current + 2])
        ELSE NoneV

next(p) ==
    LET current == index(p)
    IN  IF current + 1 < Len(WizardPhase_all)
        THEN Some(WizardPhase_all[(current + 1) + 1])
        ELSE NoneV

prev_wraps(p) ==
    LET current == index(p)
    IN  IF current > 0
        THEN Some(WizardPhase_all[(current - 1) + 1])
        ELSE Some(WizardPhase_all[Len(WizardPhase_all)])

prev(p) ==
    LET current == index(p)
    IN  IF current > 0
        THEN Some(WizardPhase_all[(current - 1) + 1])
        ELSE NoneV

(***************************************************************************)
(* wizard.rs: choice enumerations                                          *)
(***************************************************************************)
SetupType_all == << "Personal", "Work", "Minimal", "Full" >>
ShellChoice_all == << "Zsh", "Bash", "Fish", "Nushell" >>
PromptChoice_all == << "Starship", "Powerlevel10k", "PurePurple", "Minimal", "None" >>
TerminalChoice_all ==
    << "Default", "WezTerm", "Alacritty", "Kitty", "ITerm2", "Ghostty" >>
MultiplexerChoice_all == << "Tmux", "Zellij", "None" >>

\* whoami::realname(), a value of the environment
RealName == << "u" >>

Identity_default ==
    [name |-> RealName, email |-> << >>, github_username |-> << >>,
     setup_type |-> "Personal"]

ShellConfig_default ==
    [shell |-> "Zsh", prompt |-> "Starship", terminal |-> "Default",
     multiplexer |-> Some("Tmux")]

(***************************************************************************)
(* wizard.rs: WizardState                                                  *)
(***************************************************************************)
WizardState_default ==
    [phase |-> "Boot",
     identity |-> Identity_default,
     shell_config |-> ShellConfig_default,
     editor |-> "Neovim",
     selected_apps |-> { essential_apps[i].id : i \in 1..Len(essential_apps) },
     selected_categories |-> {},
     install_homebrew |-> TRUE,
     install_fonts |-> TRUE,
     generate_ssh_key |-> TRUE,
     setup_git_signing |-> FALSE,
     cursor_position |-> 0,
     scroll_offset |-> 0,
     input_buffer |-> << >>,
     input_field |-> 0,
     show_details |-> TRUE]

\* advance(): the state after the call, and the value returned
advance_keeps_cursor(w) ==
    IF next(w.phase) # NoneV
    THEN [w EXCEPT !.phase = next(w.phase)[1]]
    ELSE w

advance(w) ==
    IF next(w.phase) # NoneV
    THEN [w EXCEPT !.phase = next(w.phase)[1],
                   !.cursor_position = 0,
                   !.scroll_offset = 0]
    ELSE w

advance_ret(w) == next(w.phase) # NoneV

\* go_back(): the state after the call, and the value returned
go_back_taken_never_to_boot(w) ==
    /\ prev(w.phase) # NoneV
    /\ prev(w.phase)[1] # "Boot"

go_back_taken(w) ==
    /\ prev(w.phase) # NoneV
    /\ (prev(w.phase)[1] # "Boot" \/ w.phase = "Identity")

go_back_to_first_phase(w) ==
    IF go_back_taken(w)
    THEN [w EXCEPT !.phase = WizardPhase_all[1],
                   !.cursor_position = 0,
                   !.scroll_offset = 0]
    ELSE w

go_back(w) ==
    IF go_back_taken(w)
    THEN [w EXCEPT !.phase = prev(w.phase)[1],
                   !.cursor_position = 0,
                   !.scroll_offset = 0]
    ELSE w

go_back_ret(w) == go_back_taken(w)

toggle_app_insert_only(w, app_id) ==
    [w EXCEPT !.selected_apps = @ \cup { app_id }]

toggle_app(w, app_id) ==
    IF app_id \in w.selected_apps
    THEN [w EXCEPT !.selected_apps = @ \ { app_id }]
    ELSE [w EXCEPT !.selected_apps = @ \cup { app_id }]

is_app_selected(w, app_id) == app_id \in w.selected_apps

get_selected_apps_unfiltered(w) == CATALOG

get_selected_apps(w) ==
    LET Selected(a) == a.id \in w.selected_apps
    IN  SelectSeq(CATALOG, Selected)

(***************************************************************************)
(* Keys (crossterm KeyCode, with the CONTROL modifier as ctrl)             *)
(***************************************************************************)
Key(code) == [code |-> code, ch |-> ""]
Char(c) == [code |-> "Char", ch |-> c]

\* every key the handlers of main.rs tell apart, and one they do not ("F1")
AllKeys ==
    { Key(c) : c \in { "Enter", "Esc", "Tab", "BackTab", "Up", "Down", "Left",
                       "Right", "Backspace", "F1" } }
    \cup { Char(c) : c \in { " ", "a", "c", "d", "h", "j", "k", "l", "n", "q",
                             "y", "x" } }

(***************************************************************************)
(* effects.rs: TypeWriter; main.rs: BootSequence                           *)
(***************************************************************************)
\* full_text is kept as its length in bytes
TypeWriter_new(len) ==
    [full_len |-> len, visible_chars |-> 0, cursor_visible |-> TRUE,
     complete |-> FALSE]

TypeWriter_tick(tw) ==
    [tw EXCEPT !.visible_chars =
                   IF tw.visible_chars < tw.full_len THEN @ + 1 ELSE @,
               !.complete =
                   IF tw.visible_chars < tw.full_len THEN @ ELSE TRUE,
               !.cursor_visible = ~ @]

\* byte lengths of the six boot messages
BootMessageLens == << 14, 27, 27, 31, 30, 6 >>

BootSequence_new ==
    [stage |-> 0,
     messages |-> [i \in 1..Len(BootMessageLens) |-> FALSE],
     current_typewriter |-> Some(TypeWriter_new(BootMessageLens[1])),
     complete |-> FALSE]

BootSequence_tick(b) ==
    IF b.complete \/ b.current_typewriter = NoneV
    THEN b
    ELSE LET tw == TypeWriter_tick(b.current_typewriter[1])
         IN  IF ~ tw.complete
             THEN [b EXCEPT !.current_typewriter = Some(tw)]
             ELSE LET stage == b.stage + 1
                  IN  IF stage < Len(BootMessageLens)
                      THEN [b EXCEPT !.messages[b.stage + 1] = TRUE,
                                     !.stage = stage,
                                     !.current_typewriter =
                                         Some(TypeWriter_new(BootMessageLens[stage + 1]))]
                      ELSE [b EXCEPT !.messages[b.stage + 1] = TRUE,
                                     !.stage = stage,
                                     !.current_typewriter = NoneV,
                                     !.complete = TRUE]

BootSequence_skip(b) ==
    [stage |-> Len(b.messages),
     messages |-> [i \in 1..Len(b.messages) |-> TRUE],
     current_typewriter |-> NoneV,
     complete |-> TRUE]

(***************************************************************************)
(* main.rs: the per-phase input handlers, as functions of the WizardState  *)
(***************************************************************************)
\* position of v in the slice s, 0-based: position(..).unwrap_or(0)
Position(s, v) ==
    IF \E i \in 1..Len(s) : s[i] = v
    THEN (CHOOSE i \in 1..Len(s) : s[i] = v /\ \A j \in 1..(i - 1) : s[j] # v) - 1
    ELSE 0

\* (current + 1) % len
CycleForward(current, len) == (current + 1) % len

\* current.checked_sub(1).unwrap_or(len - 1)
CycleBackward(current, len) == IF current >= 1 THEN current - 1 ELSE len - 1

\* saturating_sub(1)
SaturatingDec(n) == IF n >= 1 THEN n - 1 ELSE 0

Min(a, b) == IF a <= b THEN a ELSE b

\* String::pop
Pop(s) == IF Len(s) = 0 THEN s ELSE SubSeq(s, 1, Len(s) - 1)

handle_identity_input(w, key) ==
    CASE key.code \in { "Tab", "Down" } ->
             [w EXCEPT !.input_field = (w.input_field + 1) % 4]
      [] key.code \in { "BackTab", "Up" } ->
             [w EXCEPT !.input_field = IF w.input_field >= 1 THEN w.input_field - 1 ELSE 3]
      [] key.code = "Char" ->
             CASE w.input_field = 0 -> [w EXCEPT !.identity.name = Append(@, key.ch)]
               [] w.input_field = 1 -> [w EXCEPT !.identity.email = Append(@, key.ch)]
               [] w.input_field = 2 ->
                      [w EXCEPT !.identity.github_username = Append(@, key.ch)]
               [] OTHER -> w
      [] key.code = "Backspace" ->
             CASE w.input_field = 0 -> [w EXCEPT !.identity.name = Pop(@)]
               [] w.input_field = 1 -> [w EXCEPT !.identity.email = Pop(@)]
               [] w.input_field = 2 -> [w EXCEPT !.identity.github_username = Pop(@)]
               [] OTHER -> w
      [] key.code \in { "Left", "Right" } ->
             IF w.input_field = 3
             THEN LET current == Position(SetupType_all, w.identity.setup_type)
                      new_idx == IF key.code = "Right"
                                 THEN CycleForward(current, Len(SetupType_all))
                                 ELSE CycleBackward(current, Len(SetupType_all))
                  IN  [w EXCEPT !.identity.setup_type = SetupType_all[new_idx + 1]]
             ELSE w
      [] key.code = "Enter" ->
             IF w.input_field = 3
             THEN advance(w)
             ELSE [w EXCEPT !.input_field = (w.input_field + 1) % 4]
      [] key.code = "Esc" -> go_back(w)
      [] OTHER -> w

cycle_shell_option(w, forward) ==
    LET Cycle(current, len) ==
            IF forward THEN CycleForward(current, len) ELSE CycleBackward(current, len)
    IN  CASE w.cursor_position = 0 ->
                 LET new_idx == Cycle(Position(ShellChoice_all, w.shell_config.shell),
                                      Len(ShellChoice_all))
                 IN  [w EXCEPT !.shell_config.shell = ShellChoice_all[new_idx + 1]]
          [] w.cursor_position = 1 ->
                 LET new_idx == Cycle(Position(PromptChoice_all, w.shell_config.prompt),
                                      Len(PromptChoice_all))
                 IN  [w EXCEPT !.shell_config.prompt = PromptChoice_all[new_idx + 1]]
          [] w.cursor_position = 2 ->
                 LET new_idx == Cycle(Position(TerminalChoice_all, w.shell_config.terminal),
                                      Len(TerminalChoice_all))
                 IN  [w EXCEPT !.shell_config.terminal = TerminalChoice_all[new_idx + 1]]
          [] w.cursor_position = 3 ->
                 LET opts == MultiplexerChoice_all
                     current == IF w.shell_config.multiplexer # NoneV
                                THEN Position(opts, w.shell_config.multiplexer[1])
                                ELSE Len(opts) - 1
                     new_idx == Cycle(current, Len(opts))
                 IN  [w EXCEPT !.shell_config.multiplexer =
                                   IF opts[new_idx + 1] = "None"
                                   THEN NoneV
                                   ELSE Some(opts[new_idx + 1])]
          [] OTHER -> w

IsKey(key, code, chars) ==
    key.code = code \/ (key.code = "Char" /\ key.ch \in chars)

\* handle_shell_input with a cursor that wraps around
handle_shell_input_wraps(w, key) ==
    LET max_items == 4
    IN  CASE IsKey(key, "Up", { "k" }) ->
                 [w EXCEPT !.cursor_position = CycleBackward(@, max_items)]
          [] IsKey(key, "Down", { "j" }) ->
                 [w EXCEPT !.cursor_position = CycleForward(@, max_items)]
          [] IsKey(key, "Left", { "h" }) -> cycle_shell_option(w, FALSE)
          [] IsKey(key, "Right", { "l" }) -> cycle_shell_option(w, TRUE)
          [] key.code = "Enter" -> advance(w)
          [] key.code = "Esc" -> go_back(w)
          [] OTHER -> w

handle_shell_input(w, key) ==
    LET max_items == 4
    IN  CASE IsKey(key, "Up", { "k" }) ->
                 [w EXCEPT !.cursor_position = SaturatingDec(@)]
          [] IsKey(key, "Down", { "j" }) ->
                 [w EXCEPT !.cursor_position = Min(@ + 1, max_items - 1)]
          [] IsKey(key, "Left", { "h" }) -> cycle_shell_option(w, FALSE)
          [] IsKey(key, "Right", { "l" }) -> cycle_shell_option(w, TRUE)
          [] key.code = "Enter" -> advance(w)
          [] key.code = "Esc" -> go_back(w)
          [] OTHER -> w

\* the categories shown in the DevTools phase
DevToolsCategories == << "Language", "Editor", "Git", "Container", "Cloud" >>

\* the category list of the current phase (None outside DevTools and Apps)
PhaseCategories(w) ==
    CASE w.phase = "DevTools" -> Some(DevToolsCategories)
      [] w.phase = "Apps" -> Some(Category_all)
      [] OTHER -> NoneV

get_current_list_len(w) ==
    IF PhaseCategories(w) = NoneV
    THEN 0
    ELSE LET categories == PhaseCategories(w)[1]
             cat == categories[(w.scroll_offset % Len(categories)) + 1]
         IN  Len(apps_by_category(cat))

get_current_app_id(w) ==
    IF PhaseCategories(w) = NoneV
    THEN NoneV
    ELSE LET categories == PhaseCategories(w)[1]
             cat == categories[(w.scroll_offset % Len(categories)) + 1]
             apps == apps_by_category(cat)
         IN  IF w.cursor_position < Len(apps)
             THEN Some(apps[w.cursor_position + 1].id)
             ELSE NoneV

toggle_current_app(w) ==
    IF get_current_app_id(w) # NoneV
    THEN toggle_app(w, get_current_app_id(w)[1])
    ELSE w

\* ids of the apps of the DevTools category under scroll_offset
DevToolsCategoryIds(w) ==
    LET cat == DevToolsCategories[(w.scroll_offset % Len(DevToolsCategories)) + 1]
        apps == apps_by_category(cat)
    IN  { apps[i].id : i \in 1..Len(apps) }

select_all_in_category(w) ==
    [w EXCEPT !.selected_apps = @ \cup DevToolsCategoryIds(w)]

deselect_all_in_category(w) ==
    [w EXCEPT !.selected_apps = @ \ DevToolsCategoryIds(w)]

handle_devtools_input(w, key) ==
    CASE IsKey(key, "Up", { "k" }) ->
             [w EXCEPT !.cursor_position = SaturatingDec(@)]
      [] IsKey(key, "Down", { "j" }) ->
             [w EXCEPT !.cursor_position =
                           Min(@ + 1, SaturatingDec(get_current_list_len(w)))]
      [] key.code = "Tab" ->
             [w EXCEPT !.scroll_offset = (@ + 1) % Len(DevToolsCategories),
                       !.cursor_position = 0]
      [] key = Char(" ") -> toggle_current_app(w)
      [] key.code = "Enter" -> advance(w)
      [] key.code = "Esc" -> go_back(w)
      [] key = Char("a") -> select_all_in_category(w)
      [] key = Char("n") -> deselect_all_in_category(w)
      [] OTHER -> w

handle_apps_input(w, key) ==
    CASE IsKey(key, "Up", { "k" }) ->
             [w EXCEPT !.cursor_position = SaturatingDec(@)]
      [] IsKey(key, "Down", { "j" }) ->
             [w EXCEPT !.cursor_position =
                           Min(@ + 1, SaturatingDec(get_current_list_len(w)))]
      [] key.code = "Tab" ->
             [w EXCEPT !.scroll_offset = (@ + 1) % Len(Category_all),
                       !.cursor_position = 0]
      [] key.code = "BackTab" ->
             [w EXCEPT !.scroll_offset =
                           IF @ >= 1 THEN @ - 1 ELSE Len(Category_all) - 1,
                       !.cursor_position = 0]
      [] key = Char(" ") -> toggle_current_app(w)
      [] key = Char("d") -> [w EXCEPT !.show_details = ~ @]
      [] key.code = "Enter" -> advance(w)
      [] key.code = "Esc" -> go_back(w)
      [] OTHER -> w

(***************************************************************************)
(* executor.rs: InstallMessage, InstallSummary, process results            *)
(***************************************************************************)
PhaseStart(phase) == [type |-> "PhaseStart", phase |-> phase]
PackageStart(name, method) == [type |-> "PackageStart", name |-> name, method |-> method]
\* duration_ms is wall-clock time and is left out
PackageSuccess(name) == [type |-> "PackageSuccess", name |-> name]
PackageSkipped(name, reason) == [type |-> "PackageSkipped", name |-> name, reason |-> reason]
PackageFailed(name, error) == [type |-> "PackageFailed", name |-> name, error |-> error]
Log(line) == [type |-> "Log", line |-> line]
Progress(completed, total) ==
    [type |-> "Progress", completed |-> completed, total |-> total]
Done(succeeded, failed, skipped) ==
    [type |-> "Done", succeeded |-> succeeded, failed |-> failed, skipped |-> skipped]
FatalError(err) == [type |-> "FatalError", err |-> err]

InstallSummary_default == [succeeded |-> << >>, failed |-> << >>, skipped |-> << >>]

\* The text of a process stream is a sequence of pieces: "\n" is a line
\* break, any other piece is a run of characters without a line break.
\* A formatted string is the tuple of its parts.
NL == "\n"

\* str::lines(): the pieces between line breaks; a final line break ends the
\* last line and starts no new one
RECURSIVE LinesFrom(_, _)
LinesFrom(text, cur) ==
    IF text = << >>
    THEN (IF cur = << >> THEN << >> ELSE << cur >>)
    ELSE IF Head(text) = NL
         THEN << cur >> \o LinesFrom(Tail(text), << >>)
         ELSE LinesFrom(Tail(text), Append(cur, Head(text)))

Lines(text) == LinesFrom(text, << >>)

NonEmptyLines(text) ==
    LET NotEmpty(l) == l # << >>
    IN  SelectSeq(Lines(text), NotEmpty)

\* str::trim() for texts whose only white space is line breaks
RECURSIVE TrimStart(_)
TrimStart(text) ==
    IF text # << >> /\ Head(text) = NL THEN TrimStart(Tail(text)) ELSE text

RECURSIVE TrimEnd(_)
TrimEnd(text) ==
    IF text # << >> /\ text[Len(text)] = NL
    THEN TrimEnd(SubSeq(text, 1, Len(text) - 1))
    ELSE text

Trim(text) == TrimEnd(TrimStart(text))

\* Result<(), String>
Ok == [ok |-> TRUE, err |-> << >>]
Err(e) == [ok |-> FALSE, err |-> e]

\* What Command::output() can yield: spawned says whether the process could
\* be run at all, code is its exit code.
ProcOk == [spawned |-> TRUE, code |-> 0, stdout |-> << >>, stderr |-> << >>]
ProcFail ==
    [spawned |-> TRUE, code |-> 1, stdout |-> << >>,
     stderr |-> << "permission denied", NL >>]
ProcNoSpawn == [spawned |-> FALSE, code |-> 0, stdout |-> << >>, stderr |-> << >>]

\* a process invocation: the command, and whether it ran and exited with 0
SpawnEntry(cmd, o) == [cmd |-> cmd, ok |-> o.spawned /\ o.code = 0]

\* the process results followed with the interactive loop running
Outcomes == { ProcOk, ProcFail }

\* Display of std::process::ExitStatus for a process that exited
ExitStatus_fmt(code) == << "exit status: ", ToString(code) >>

\* run_command's result for a process that ran
run_command_result(o) ==
    IF o.code = 0
    THEN Ok
    ELSE IF o.stderr = << >>
         THEN Err(<< "exited with code ", ExitStatus_fmt(o.code) >>)
         ELSE Err(Lines(o.stderr)[Len(Lines(o.stderr))])

\* install_via_script's result
install_via_script_result(o) ==
    IF ~ o.spawned
    THEN Err(<< "Failed to run script: ", "spawn error" >>)
    ELSE IF o.code = 0
         THEN Ok
         ELSE Err(<< "Script failed: ", Trim(o.stderr) >>)

\* run_shell_command's result
run_shell_command_result(o) ==
    IF ~ o.spawned
    THEN Err(<< "Failed to run command: ", "spawn error" >>)
    ELSE IF o.code = 0
         THEN Ok
         ELSE Err(<< "Command failed: ", Trim(o.stderr) >>)

\* install_app's result for a process that ran, by install method
install_app_result(method, o) ==
    CASE method = "Script" -> install_via_script_result(o)
      [] method = "Manual" -> run_shell_command_result(o)
      [] OTHER -> run_command_result(o)

\* InstallMethod::command()
InstallMethod_command(a) ==
    CASE a.install_method = "Brew" -> << "brew install ", a.pkg >>
      [] a.install_method = "BrewCask" -> << "brew install --cask ", a.pkg >>
      [] a.install_method = "Cargo" -> << "cargo install ", a.pkg >>
      [] a.install_method = "Npm" -> << "npm install -g ", a.pkg >>
      [] a.install_method = "Pip" -> << "pip install ", a.pkg >>
      [] a.install_method = "Go" -> << "go install ", a.pkg >>
      [] a.install_method = "Script" -> << "curl -fsSL ", a.pkg, " | sh" >>
      [] a.install_method = "Manual" -> << a.pkg >>
      [] a.install_method = "Apt" -> << "sudo apt install -y ", a.pkg >>

\* install_app: the program and arguments handed to run_command
install_app_command(a) ==
    CASE a.install_method = "Brew" -> << "brew", "install", a.pkg >>
      [] a.install_method = "BrewCask" -> << "brew", "install", "--cask", a.pkg >>
      [] a.install_method = "Cargo" -> << "cargo", "install", a.pkg >>
      [] a.install_method = "Npm" -> << "npm", "install", "-g", a.pkg >>
      [] a.install_method = "Pip" -> << "pip3", "install", a.pkg >>
      [] a.install_method = "Go" -> << "go", "install", a.pkg >>
      [] a.install_method = "Apt" -> << "sudo", "apt", "install", "-y", a.pkg >>

\* the three batches of run_install, in processing order
BatchOf_drops_script(a) ==
    CASE a.install_method = "Brew" -> 1
      [] a.install_method = "BrewCask" -> 2
      [] a.install_method = "Script" -> 4
      [] OTHER -> 3

BatchOf(a) ==
    CASE a.install_method = "Brew" -> 1
      [] a.install_method = "BrewCask" -> 2
      [] OTHER -> 3

BatchItems_reversed(apps, k) ==
    LET InBatch(a) == BatchOf(a) = k
        items == SelectSeq(apps, InBatch)
    IN  [i \in 1..Len(items) |-> items[Len(items) + 1 - i]]

BatchItems(apps, k) ==
    LET InBatch(a) == BatchOf(a) = k
    IN  SelectSeq(apps, InBatch)

BatchPhaseName == << "Homebrew Formulae", "Homebrew Casks", "Additional Tools" >>

(***************************************************************************)
(* State                                                                   *)
(***************************************************************************)
VARIABLES
    wizard,         \* App.wizard: the WizardState
    boot_sequence,  \* App.boot_sequence
    app,            \* the other fields of App
    pc,             \* where run_app's loop stands
    worker,         \* the install thread: its position and its locals
    chan,           \* the mpsc channel: messages sent and not yet received
    sent,           \* every message the worker sent, in order (also the
                    \* sends that failed because the receiver was dropped)
    spawns,         \* every process the worker ran, in order, with its result
    last,           \* the operation applied by the last step, with its
                    \* argument and its return value
    toggled         \* the ids passed to toggle_app so far, in call order

vars ==
    << wizard, boot_sequence, app, pc, worker, chan, sent, spawns, last, toggled >>

NoOp == [op |-> "none", arg |-> NoneV, ret |-> NoneV]

\* App::new(); rendering state (matrix_rain, spinner, typewriter) and the
\* clock (last_tick, tick_rate) are left out
App_new(has_homebrew) ==
    [system |-> [has_homebrew |-> has_homebrew],
     should_quit |-> FALSE,
     install_log |-> << >>,
     install_progress |-> 0,
     install_total |-> 0,
     install_completed |-> 0,
     install_succeeded |-> 0,
     install_failed |-> 0,
     install_skipped |-> 0,
     current_package |-> NoneV,
     is_installing |-> FALSE,
     install_receiver |-> NoneV,
     install_thread |-> NoneV,
     error_message |-> NoneV]

\* no thread has been spawned
Worker_none ==
    [pc |-> "none", apps |-> << >>, total |-> 0, has_homebrew |-> FALSE,
     wizard_clone |-> NoneV,
     summary |-> InstallSummary_default, completed |-> 0,
     batch |-> 0, i |-> 0, cmd |-> << >>, lines |-> << >>, res |-> Ok,
     ret |-> "none"]

Worker_spawn_whole_catalog(system, apps, wizard_clone) ==
    [Worker_none EXCEPT !.pc = "run_install",
                        !.apps = CATALOG,
                        !.total = Len(CATALOG),
                        !.has_homebrew = system.has_homebrew,
                        !.wizard_clone = Some(wizard_clone)]

\* the thread spawned by start_installation, about to call run_install
Worker_spawn(system, apps, wizard_clone) ==
    [Worker_none EXCEPT !.pc = "run_install",
                        !.apps = apps,
                        !.total = Len(apps),
                        !.has_homebrew = system.has_homebrew,
                        !.wizard_clone = Some(wizard_clone)]

(***************************************************************************)
(* github.rs: the advisory steps run after run_install.  Each function is  *)
(* an operator from the wizard snapshot and the machine it runs on to the  *)
(* messages it sends and the processes it runs, in order.  The machine e   *)
(* gives the result of every process and file operation the step performs. *)
(***************************************************************************)
NoEffect == [events |-> << >>, spawns |-> << >>]

\* first the effects of a, then the effects of b
Then(a, b) == [events |-> a.events \o b.events, spawns |-> a.spawns \o b.spawns]

Sends(events) == [events |-> events, spawns |-> << >>]

Runs(cmd, o) == [events |-> << >>, spawns |-> << SpawnEntry(cmd, o) >>]

\* what an std::io::Error prints
IoError == "io error"

\* run_git_config
run_git_config(key, value, e) ==
    LET o == e.git
        ran == Runs(<< "git", "config", "--global", key, value >>, o)
    IN  IF ~ o.spawned
        THEN ran
        ELSE IF o.code = 0
             THEN Then(ran, Sends(<< Log(<< "  git config --global ", key, " = ", value >>) >>))
             ELSE Then(ran, Sends(<< Log(<< "  [WARN] ", "git config ", key, " failed: ",
                                           Trim(o.stderr) >>) >>))

\* the keys configure_git_identity writes, in order
GitConfigEntries(w) ==
    (IF w.identity.name # << >> THEN << << "user.name", w.identity.name >> >> ELSE << >>)
    \o (IF w.identity.email # << >> THEN << << "user.email", w.identity.email >> >> ELSE << >>)
    \o << << "init.defaultBranch", "main" >>,
          << "push.autoSetupRemote", "true" >>,
          << "pull.rebase", "true" >>,
          << "fetch.prune", "true" >>,
          << "rebase.autoStash", "true" >> >>
    \o (IF "delta" \in w.selected_apps
        THEN << << "core.pager", "delta" >>,
                << "interactive.diffFilter", "delta --color-only" >>,
                << "delta.navigate", "true" >>,
                << "delta.line-numbers", "true" >> >>
        ELSE << >>)
    \o << << "url.git@github.com:.insteadOf", "https://github.com/" >> >>

RECURSIVE RunGitConfigs(_, _)
RunGitConfigs(entries, e) ==
    IF entries = << >>
    THEN NoEffect
    ELSE Then(run_git_config(Head(entries)[1], Head(entries)[2], e),
              RunGitConfigs(Tail(entries), e))

\* configure_git_identity
configure_git_identity(w, e) ==
    Then(Sends(<< Log(<< "[GIT] Configuring git identity..." >>) >>),
    Then(RunGitConfigs(GitConfigEntries(w), e),
         Sends(<< Log(<< "[GIT] Git identity configured" >>) >>)))

\* show_public_key: e.pub_key is what reading the .pub file gives, NoneV
\* when it cannot be read
show_public_key(e) ==
    IF e.pub_key = NoneV
    THEN NoEffect
    ELSE LET pub == e.pub_key[1]
         IN  IF pub.len > 60
             THEN Sends(<< Log(<< "  Public key: ", "first 30 of ", pub.text, "...",
                                  "last 20 of ", pub.text >>) >>)
             ELSE Sends(<< Log(<< "  Public key: ", pub.text >>) >>)

\* generate_ssh_key: the effects, and the key path returned
generate_ssh_key(w, e) ==
    IF e.ed25519_exists
    THEN [eff |-> Then(Sends(<< Log(<< "[SSH] Existing SSH key found - skipping generation" >>) >>),
                       show_public_key(e)),
          key |-> Some("id_ed25519")]
    ELSE IF e.rsa_exists
    THEN [eff |-> Then(Sends(<< Log(<< "[SSH] Existing RSA key found at ~/.ssh/id_rsa - skipping generation" >>) >>),
                       show_public_key(e)),
          key |-> Some("id_rsa")]
    ELSE LET start == Sends(<< Log(<< "[SSH] Generating ed25519 SSH key..." >>) >>)
             comment == IF w.identity.email # << >>
                        THEN w.identity.email
                        ELSE << "username", "@loadstar" >>
             o == e.ssh_keygen
             ran == Runs(<< "ssh-keygen", "-t", "ed25519", "-C", comment,
                            "-f", "id_ed25519", "-N", "" >>, o)
         IN  IF ~ e.mkdir_ok
             THEN [eff |-> Then(start, Sends(<< Log(<< "  [ERROR] Failed to create ~/.ssh: ",
                                                      IoError >>) >>)),
                   key |-> NoneV]
             ELSE IF o.spawned /\ o.code = 0
             THEN [eff |-> Then(start, Then(ran,
                           Then(Sends(<< Log(<< "[SSH] SSH key generated successfully" >>) >>),
                                show_public_key(e)))),
                   key |-> Some("id_ed25519")]
             ELSE IF o.spawned
             THEN [eff |-> Then(start, Then(ran,
                           Sends(<< Log(<< "  [ERROR] ssh-keygen failed: ",
                                           Trim(o.stderr) >>) >>))),
                   key |-> NoneV]
             ELSE [eff |-> Then(start, Then(ran,
                           Sends(<< Log(<< "  [ERROR] Could not run ssh-keygen: ",
                                           IoError >>) >>))),
                   key |-> NoneV]

\* write_ssh_config
write_ssh_config(e) ==
    IF e.ssh_config_has_agent
    THEN NoEffect
    ELSE IF e.ssh_config_open_ok
         THEN Sends(<< Log(<< "  Wrote ~/.ssh/config (Keychain integration)" >>) >>)
         ELSE Sends(<< Log(<< "  [WARN] Could not write ~/.ssh/config: ", IoError >>) >>)

\* add_key_to_agent
add_key_to_agent(key_path, e) ==
    LET o == e.ssh_add
        add == IF e.macos
               THEN Then(write_ssh_config(e),
                         Runs(<< "ssh-add", "--apple-use-keychain", key_path >>, o))
               ELSE Runs(<< "ssh-add", key_path >>, o)
        result == IF o.spawned /\ o.code = 0
                  THEN Log(<< "  Key added to ssh-agent" >>)
                  ELSE IF o.spawned
                       THEN Log(<< "  [WARN] ssh-add: ", Trim(o.stderr) >>)
                       ELSE Log(<< "  [WARN] Could not run ssh-add: ", IoError >>)
    IN  Then(Sends(<< Log(<< "[SSH] Adding key to ssh-agent..." >>) >>),
        Then(Runs(<< "ssh-agent", "-s" >>, e.ssh_agent),
        Then(add, Sends(<< result >>))))

\* upload_ssh_key
upload_ssh_key(key_path, e) ==
    IF ~ e.pub_exists
    THEN NoEffect
    ELSE LET list == e.gh_key_list
             existing == IF list.spawned THEN list.stdout ELSE << >>
             key_fingerprint == IF e.pub_key = NoneV THEN "" ELSE e.pub_key[1].fingerprint
             title == << "LOAD*,8,1 (", "hostname", ")" >>
             o == e.gh_key_add
             result == IF o.spawned /\ o.code = 0
                       THEN Log(<< "  SSH key uploaded as '", title, "'" >>)
                       ELSE IF o.spawned
                            THEN Log(<< "  [WARN] Failed to upload SSH key: ",
                                        Trim(o.stderr) >>)
                            ELSE Log(<< "  [WARN] Could not run gh ssh-key add: ",
                                        IoError >>)
         IN  Then(Runs(<< "gh", "ssh-key", "list" >>, list),
                  IF /\ key_fingerprint # ""
                     /\ \E i \in 1..Len(existing) : existing[i] = key_fingerprint
                  THEN Sends(<< Log(<< "  SSH key already on GitHub - skipping upload" >>) >>)
                  ELSE Then(Sends(<< Log(<< "[GH] Uploading SSH key to GitHub..." >>) >>),
                       Then(Runs(<< "gh", "ssh-key", "add", key_path, "--title", title >>, o),
                            Sends(<< result >>))))

\* setup_gh_cli
setup_gh_cli(ssh_key_path, e) ==
    LET gh_available == e.gh_version.spawned /\ e.gh_version.code = 0
        auth_status == e.gh_auth_status.spawned /\ e.gh_auth_status.code = 0
    IN  Then(Runs(<< "gh", "--version" >>, e.gh_version),
             IF ~ gh_available
             THEN Sends(<< Log(<< "[GH] GitHub CLI not found - skipping auth setup" >>) >>)
             ELSE Then(Runs(<< "gh", "auth", "status" >>, e.gh_auth_status),
                       IF auth_status
                       THEN Then(Sends(<< Log(<< "[GH] Already authenticated with GitHub CLI" >>) >>),
                            Then(IF ssh_key_path # NoneV
                                 THEN upload_ssh_key(ssh_key_path[1], e)
                                 ELSE NoEffect,
                            Then(Runs(<< "gh", "auth", "setup-git" >>, e.gh_setup_git),
                                 Sends(<< Log(<< "  Set gh as git credential helper" >>) >>))))
                       ELSE Sends(<< Log(<< "[GH] GitHub CLI auth requires interactive login" >>),
                                     Log(<< "  Run after install: gh auth login --protocol ssh --web" >>) >>)))

\* A line of gpg's key listing is the sequence of its pieces, " " being
\* white space and "/" the slash.  str::trim of such a line:
RECURSIVE TrimSpaces(_)
TrimSpaces(line) ==
    IF line # << >> /\ Head(line) = " " THEN TrimSpaces(Tail(line))
    ELSE IF line # << >> /\ line[Len(line)] = " "
         THEN TrimSpaces(SubSeq(line, 1, Len(line) - 1))
         ELSE line

\* the key id of one line: Some(id) when the trimmed line starts with "sec",
\* has a slash and a token after it
LineKeyId(line) ==
    LET trimmed == TrimSpaces(line)
        slashes == { i \in 1..Len(trimmed) : trimmed[i] = "/" }
    IN  IF trimmed = << >> \/ trimmed[1] # "sec" \/ slashes = { }
        THEN NoneV
        ELSE LET slash_pos == CHOOSE i \in slashes : \A j \in slashes : i <= j
                 after_slash == SubSeq(trimmed, slash_pos + 1, Len(trimmed))
                 NotSpace(x) == x # " "
                 tokens == SelectSeq(after_slash, NotSpace)
             IN  IF tokens = << >> THEN NoneV ELSE Some(tokens[1])

\* extract_gpg_key_id: the key id of the first line that has one
RECURSIVE extract_gpg_key_id(_)
extract_gpg_key_id(output) ==
    IF output = << >>
    THEN NoneV
    ELSE IF LineKeyId(Head(output)) # NoneV
         THEN LineKeyId(Head(output))
         ELSE extract_gpg_key_id(Tail(output))

\* setup_gpg_signing: the standard output of gpg is the sequence of its lines
setup_gpg_signing(w, e) ==
    LET gpg_available == e.gpg_version.spawned /\ e.gpg_version.code = 0
        list == e.gpg_list
        existing == IF list.spawned THEN list.stdout ELSE << >>
        NotBlank(line) == TrimSpaces(line) # << >>
        key_id == extract_gpg_key_id(existing)
    IN  Then(Runs(<< "gpg", "--version" >>, e.gpg_version),
             IF ~ gpg_available
             THEN Sends(<< Log(<< "[GPG] GnuPG not found - skipping signing setup" >>),
                           Log(<< "  Install gnupg and re-run, or set up manually" >>) >>)
             ELSE Then(Sends(<< Log(<< "[GPG] Checking for existing GPG keys..." >>) >>),
                  Then(Runs(<< "gpg", "--list-secret-keys", "--keyid-format=long",
                               w.identity.email >>, list),
                       IF SelectSeq(existing, NotBlank) # << >>
                       THEN Then(Sends(<< Log(<< "  Existing GPG key found - configuring git to use it" >>) >>),
                                 IF key_id # NoneV
                                 THEN Then(run_git_config("user.signingkey", key_id[1], e),
                                      Then(run_git_config("commit.gpgsign", "true", e),
                                      Then(run_git_config("tag.gpgsign", "true", e),
                                           Sends(<< Log(<< "  Git configured to sign with key ",
                                                           key_id[1] >>) >>))))
                                 ELSE NoEffect)
                       ELSE Sends(<< Log(<< "[GPG] No GPG key found for this email" >>),
                                     Log(<< "  Run after install: gpg --full-generate-key" >>),
                                     Log(<< "  Then: git config --global user.signingkey <KEY_ID>" >>),
                                     Log(<< "  Then: git config --global commit.gpgsign true" >>) >>))))

\* setup_github that returns when no SSH key is available
setup_github_stops_without_key(w, e) ==
    LET ssh == generate_ssh_key(w, e)
        ssh_key_path == ssh.key
    IN  Then(Sends(<< PhaseStart("Git & GitHub Setup") >>),
        Then(configure_git_identity(w, e),
        Then(ssh.eff,
             IF ssh_key_path = NoneV
             THEN NoEffect
             ELSE Then(add_key_to_agent(ssh_key_path[1], e),
                  Then(IF "gh" \in w.selected_apps
                       THEN setup_gh_cli(ssh_key_path, e)
                       ELSE NoEffect,
                  Then(IF w.setup_git_signing THEN setup_gpg_signing(w, e) ELSE NoEffect,
                       Sends(<< Log(<< "[GIT] Git & GitHub setup complete" >>) >>)))))))

\* setup_github
setup_github(w, e) ==
    LET ssh == generate_ssh_key(w, e)
        ssh_key_path == ssh.key
    IN  Then(Sends(<< PhaseStart("Git & GitHub Setup") >>),
        Then(configure_git_identity(w, e),
        Then(ssh.eff,
        Then(IF ssh_key_path # NoneV THEN add_key_to_agent(ssh_key_path[1], e) ELSE NoEffect,
        Then(IF "gh" \in w.selected_apps THEN setup_gh_cli(ssh_key_path, e) ELSE NoEffect,
        Then(IF w.setup_git_signing THEN setup_gpg_signing(w, e) ELSE NoEffect,
             Sends(<< Log(<< "[GIT] Git & GitHub setup complete" >>) >>)))))))

\* A machine on which every process of the advisory steps succeeds, no key
\* exists yet and the files can be written
MachineFresh ==
    [git |-> ProcOk, ssh_keygen |-> ProcOk, ssh_agent |-> ProcOk, ssh_add |-> ProcOk,
     gh_version |-> ProcOk, gh_auth_status |-> ProcOk,
     gh_key_list |-> [ProcOk EXCEPT !.stdout = << "ssh-ed25519", "BBBB", NL >>],
     gh_key_add |-> ProcOk, gh_setup_git |-> ProcOk,
     gpg_version |-> ProcOk,
     gpg_list |-> [ProcOk EXCEPT !.stdout =
                      << << "sec", " ", " ", "ed25519", "/", "ABCDEF1234567890", " ",
                            "2024-01-01" >> >>],
     ed25519_exists |-> FALSE, rsa_exists |-> FALSE, mkdir_ok |-> TRUE,
     pub_exists |-> TRUE,
     pub_key |-> Some([text |-> "ssh-ed25519 AAAA u@host", fingerprint |-> "AAAA",
                       len |-> 80]),
     ssh_config_has_agent |-> FALSE, ssh_config_open_ok |-> TRUE, macos |-> TRUE]

\* A machine on which every process of the advisory steps fails
MachineBroken ==
    [MachineFresh EXCEPT
        !.git = ProcFail, !.ssh_keygen = ProcFail, !.ssh_agent = ProcNoSpawn,
        !.ssh_add = ProcFail, !.gh_version = ProcFail, !.gh_auth_status = ProcFail,
        !.gh_key_list = ProcFail, !.gh_key_add = ProcFail, !.gh_setup_git = ProcFail,
        !.gpg_version = ProcFail, !.gpg_list = ProcFail,
        !.pub_exists = FALSE, !.pub_key = NoneV, !.ssh_config_open_ok = FALSE]

\* the machines followed with the interactive loop running
Machines == { MachineFresh, MachineBroken }

\* config::generate_configs sends log lines about the files it writes, or none
ConfigEvents == { << >>, << Log(<< "[CONFIG]" >>) >> }

(***************************************************************************)
(* executor.rs: run_install on the install thread.  Every step is one      *)
(* tx.send or one process invocation; worker.pc names the statement the    *)
(* thread is about to execute.                                             *)
(***************************************************************************)
uiVars == << wizard, boot_sequence, app, pc, last, toggled >>

\* tx.send(e): the message is queued while the receiver exists; otherwise
\* the send fails and the error is discarded ("let _ =")
Send_blocks_when_closed(e) ==
    /\ app.install_receiver # NoneV
    /\ chan' = Append(chan, e)
    /\ sent' = Append(sent, e)

Send(e) ==
    /\ chan' = IF app.install_receiver # NoneV THEN Append(chan, e) ELSE chan
    /\ sent' = Append(sent, e)

\* Command::new(...).output() on the install thread
Spawn(cmd, o) == spawns' = Append(spawns, SpawnEntry(cmd, o))

\* the item of the batch the loop is at
CurrentItem == BatchItems(worker.apps, worker.batch)[worker.i]

\* where run_install continues once the batches before k are finished: at
\* the PhaseStart of the first non-empty batch from k on, or at Done
EnterBatch_returns_when_empty(w, k) ==
    IF \E j \in k..3 : BatchItems(w.apps, j) # << >>
    THEN [w EXCEPT !.pc = "batch_phase",
                   !.batch = CHOOSE j \in k..3 :
                                 /\ BatchItems(w.apps, j) # << >>
                                 /\ \A m \in k..(j - 1) : BatchItems(w.apps, m) = << >>,
                   !.i = 1]
    ELSE [w EXCEPT !.pc = IF w.apps = << >> THEN "run_install_return" ELSE "done"]

EnterBatch(w, k) ==
    IF \E j \in k..3 : BatchItems(w.apps, j) # << >>
    THEN [w EXCEPT !.pc = "batch_phase",
                   !.batch = CHOOSE j \in k..3 :
                                 /\ BatchItems(w.apps, j) # << >>
                                 /\ \A m \in k..(j - 1) : BatchItems(w.apps, m) = << >>,
                   !.i = 1]
    ELSE [w EXCEPT !.pc = "done"]

\* the call of run_command(cmd), returning to the statement ret
CallRunCommand(w, cmd, ret) ==
    [w EXCEPT !.pc = "run_command", !.cmd = cmd, !.ret = ret]

RunInstall_Begin ==
    /\ worker.pc = "run_install"
    /\ Send(PhaseStart("Homebrew Bootstrap"))
    /\ worker' = [worker EXCEPT !.pc = IF ~ worker.has_homebrew
                                       THEN "brew_not_found"
                                       ELSE "brew_found"]
    /\ UNCHANGED << spawns, uiVars >>

RunInstall_HomebrewNotFound ==
    /\ worker.pc = "brew_not_found"
    /\ Send(Log(<< "[BREW] Homebrew not found - installing..." >>))
    /\ worker' = [worker EXCEPT !.pc = "bootstrap_homebrew"]
    /\ UNCHANGED << spawns, uiVars >>

Bootstrap_Log ==
    /\ worker.pc = "bootstrap_homebrew"
    /\ Send(Log(<< "[BREW] Downloading Homebrew installer..." >>))
    /\ worker' = [worker EXCEPT !.pc = "bootstrap_spawn"]
    /\ UNCHANGED << spawns, uiVars >>

Bootstrap_Spawn(Outs) ==
    /\ worker.pc = "bootstrap_spawn"
    /\ \E o \in Outs :
           LET res == IF ~ o.spawned
                      THEN Err(<< "Failed to run installer: ", "spawn error" >>)
                      ELSE IF o.code = 0
                           THEN Ok
                           ELSE Err(<< "Homebrew install failed: ", Trim(o.stderr) >>)
           IN  /\ worker' = [worker EXCEPT !.res = res,
                                            !.pc = IF res.ok THEN "bootstrap_ok"
                                                             ELSE "bootstrap_fatal"]
               /\ Spawn(<< "/bin/bash", "-c", "homebrew install.sh" >>, o)
    /\ UNCHANGED << chan, sent, uiVars >>

Bootstrap_Ok ==
    /\ worker.pc = "bootstrap_ok"
    /\ Send(Log(<< "[BREW] Homebrew installed successfully" >>))
    /\ worker' = EnterBatch(worker, 1)
    /\ UNCHANGED << spawns, uiVars >>

Bootstrap_Fatal_continues ==
    /\ worker.pc = "bootstrap_fatal"
    /\ Send(FatalError(<< "Failed to install Homebrew: ", worker.res.err >>))
    /\ worker' = EnterBatch(worker, 1)
    /\ UNCHANGED << spawns, uiVars >>

Bootstrap_Fatal ==
    /\ worker.pc = "bootstrap_fatal"
    /\ Send(FatalError(<< "Failed to install Homebrew: ", worker.res.err >>))
    /\ worker' = [worker EXCEPT !.pc = "run_install_return"]
    /\ UNCHANGED << spawns, uiVars >>

RunInstall_HomebrewFound ==
    /\ worker.pc = "brew_found"
    /\ Send(Log(<< "[BREW] Homebrew found - updating..." >>))
    /\ worker' = CallRunCommand(worker, << "brew", "update" >>, "brew_updated")
    /\ UNCHANGED << spawns, uiVars >>

\* run_install that gives up when "brew update" failed
RunInstall_Updated_fatal ==
    /\ worker.pc = "brew_updated"
    /\ worker' = IF worker.res.ok
                 THEN EnterBatch(worker, 1)
                 ELSE [worker EXCEPT !.pc = "bootstrap_fatal"]
    /\ UNCHANGED << chan, sent, spawns, uiVars >>

\* the result of "brew update" is discarded
RunInstall_Updated ==
    /\ worker.pc = "brew_updated"
    /\ worker' = EnterBatch(worker, 1)
    /\ UNCHANGED << chan, sent, spawns, uiVars >>

RunCommand_Log ==
    /\ worker.pc = "run_command"
    /\ Send(Log(<< "[RUN] ", worker.cmd >>))
    /\ worker' = [worker EXCEPT !.pc = "run_command_spawn"]
    /\ UNCHANGED << spawns, uiVars >>

\* run_command whose spawn error ends run_install with FatalError
RunCommand_Spawn_fatal_on_spawn_error(Outs) ==
    /\ worker.pc = "run_command_spawn"
    /\ \E o \in Outs :
           /\ worker' =
                  IF ~ o.spawned
                  THEN [worker EXCEPT !.res = Err(<< "Failed to run ", worker.cmd >>),
                                      !.pc = "bootstrap_fatal"]
                  ELSE LET lines == NonEmptyLines(o.stdout) \o NonEmptyLines(o.stderr)
                       IN  [worker EXCEPT !.res = run_command_result(o),
                                          !.lines = lines,
                                          !.pc = IF lines = << >>
                                                 THEN worker.ret
                                                 ELSE "run_command_stream"]
           /\ Spawn(worker.cmd, o)
    /\ UNCHANGED << chan, sent, uiVars >>

RunCommand_Spawn(Outs) ==
    /\ worker.pc = "run_command_spawn"
    /\ \E o \in Outs :
           /\ worker' =
                  IF ~ o.spawned
                  THEN [worker EXCEPT !.res = Err(<< "Failed to run ", worker.cmd >>),
                                      !.pc = worker.ret]
                  ELSE LET lines == NonEmptyLines(o.stdout) \o NonEmptyLines(o.stderr)
                       IN  [worker EXCEPT !.res = run_command_result(o),
                                          !.lines = lines,
                                          !.pc = IF lines = << >>
                                                 THEN worker.ret
                                                 ELSE "run_command_stream"]
           /\ Spawn(worker.cmd, o)
    /\ UNCHANGED << chan, sent, uiVars >>

RunCommand_Stream ==
    /\ worker.pc = "run_command_stream"
    /\ Send(Log(<< "  ", Head(worker.lines) >>))
    /\ worker' = [worker EXCEPT !.lines = Tail(worker.lines),
                                !.pc = IF Len(worker.lines) = 1 THEN worker.ret
                                                                ELSE "run_command_stream"]
    /\ UNCHANGED << spawns, uiVars >>

Batch_PhaseStart_silent ==
    /\ worker.pc = "batch_phase"
    /\ worker' = [worker EXCEPT !.pc = "item_start"]
    /\ UNCHANGED << chan, sent, spawns, uiVars >>

Batch_PhaseStart ==
    /\ worker.pc = "batch_phase"
    /\ Send(PhaseStart(BatchPhaseName[worker.batch]))
    /\ worker' = [worker EXCEPT !.pc = "item_start"]
    /\ UNCHANGED << spawns, uiVars >>

Item_Start_announces_batch ==
    /\ worker.pc = "item_start"
    /\ LET a == CurrentItem
           items == BatchItems(worker.apps, worker.batch)
           starts == IF worker.i = 1
                     THEN [i \in 1..Len(items) |->
                              PackageStart(items[i].name, InstallMethod_command(items[i]))]
                     ELSE << >>
       IN  /\ chan' = IF app.install_receiver # NoneV THEN chan \o starts ELSE chan
           /\ sent' = sent \o starts
           /\ worker' =
                  CASE worker.batch \in { 1, 2 } ->
                           [worker EXCEPT !.pc = "item_check"]
                    [] a.install_method = "Script" ->
                           [worker EXCEPT !.pc = "install_via_script"]
                    [] OTHER ->
                           CallRunCommand(worker, install_app_command(a), "item_result")
    /\ UNCHANGED << spawns, uiVars >>

Item_Start ==
    /\ worker.pc = "item_start"
    /\ LET a == CurrentItem
       IN  /\ Send(PackageStart(a.name, InstallMethod_command(a)))
           /\ worker' =
                  CASE worker.batch \in { 1, 2 } ->
                           [worker EXCEPT !.pc = "item_check"]
                    [] a.install_method = "Script" ->
                           [worker EXCEPT !.pc = "install_via_script"]
                    [] OTHER ->
                           CallRunCommand(worker, install_app_command(a), "item_result")
    /\ UNCHANGED << spawns, uiVars >>

\* the command of is_brew_installed / is_brew_cask_installed for an entry
IsInstalledCommand(a) ==
    IF a.install_method = "Brew"
    THEN << "brew", "list", "--formula", a.pkg >>
    ELSE << "brew", "list", "--cask", a.pkg >>

\* the install command of the two brew loops for an entry
BrewInstallCommand(a) ==
    IF a.install_method = "Brew"
    THEN << "brew", "install", a.pkg >>
    ELSE << "brew", "install", "--cask", a.pkg >>

Item_CheckInstalled_inverted(Outs) ==
    /\ worker.pc = "item_check"
    /\ LET a == CurrentItem
       IN  \E o \in Outs :
               /\ worker' = IF ~ (o.spawned /\ o.code = 0)
                            THEN [worker EXCEPT !.pc = "item_skipped"]
                            ELSE CallRunCommand(worker, BrewInstallCommand(a),
                                                "item_result")
               /\ Spawn(IsInstalledCommand(a), o)
    /\ UNCHANGED << chan, sent, uiVars >>

\* is_brew_installed / is_brew_cask_installed, and the branch on its result
Item_CheckInstalled(Outs) ==
    /\ worker.pc = "item_check"
    /\ LET a == CurrentItem
       IN  \E o \in Outs :
               /\ worker' = IF o.spawned /\ o.code = 0
                            THEN [worker EXCEPT !.pc = "item_skipped"]
                            ELSE CallRunCommand(worker, BrewInstallCommand(a),
                                                "item_result")
               /\ Spawn(IsInstalledCommand(a), o)
    /\ UNCHANGED << chan, sent, uiVars >>

Item_Skipped ==
    /\ worker.pc = "item_skipped"
    /\ LET a == CurrentItem
       IN  /\ Send(PackageSkipped(a.name, "Already installed"))
           /\ worker' = [worker EXCEPT
                  !.summary.skipped = Append(@, << a.name, "Already installed" >>),
                  !.pc = "item_progress"]
    /\ UNCHANGED << spawns, uiVars >>

InstallScript_Log ==
    /\ worker.pc = "install_via_script"
    /\ Send(Log(<< "[SCRIPT] Downloading ", CurrentItem.pkg >>))
    /\ worker' = [worker EXCEPT !.pc = "install_via_script_spawn"]
    /\ UNCHANGED << spawns, uiVars >>

InstallScript_Spawn(Outs) ==
    /\ worker.pc = "install_via_script_spawn"
    /\ \E o \in Outs :
           LET res == install_via_script_result(o)
           IN  /\ worker' = [worker EXCEPT !.res = res, !.pc = "item_result"]
               /\ Spawn(<< "/bin/bash", "-c", "curl -fsSL", CurrentItem.pkg, "| sh" >>, o)
    /\ UNCHANGED << chan, sent, uiVars >>

Item_Result_stops_on_failure ==
    /\ worker.pc = "item_result"
    /\ LET a == CurrentItem
       IN  IF worker.res.ok
           THEN /\ Send(PackageSuccess(a.name))
                /\ worker' = [worker EXCEPT !.summary.succeeded = Append(@, a.name),
                                            !.pc = "item_progress"]
           ELSE /\ Send(PackageFailed(a.name, worker.res.err))
                /\ worker' = [worker EXCEPT
                       !.summary.failed = Append(@, << a.name, worker.res.err >>),
                       !.pc = "run_install_return"]
    /\ UNCHANGED << spawns, uiVars >>

Item_Result ==
    /\ worker.pc = "item_result"
    /\ LET a == CurrentItem
       IN  IF worker.res.ok
           THEN /\ Send(PackageSuccess(a.name))
                /\ worker' = [worker EXCEPT !.summary.succeeded = Append(@, a.name),
                                            !.pc = "item_progress"]
           ELSE /\ Send(PackageFailed(a.name, worker.res.err))
                /\ worker' = [worker EXCEPT
                       !.summary.failed = Append(@, << a.name, worker.res.err >>),
                       !.pc = "item_progress"]
    /\ UNCHANGED << spawns, uiVars >>

Item_Progress_batch_total ==
    /\ worker.pc = "item_progress"
    /\ LET completed == worker.completed + 1
           w == [worker EXCEPT !.completed = completed]
       IN  /\ Send(Progress(completed, Len(BatchItems(worker.apps, worker.batch))))
           /\ worker' = IF worker.i < Len(BatchItems(worker.apps, worker.batch))
                        THEN [w EXCEPT !.i = worker.i + 1, !.pc = "item_start"]
                        ELSE EnterBatch(w, worker.batch + 1)
    /\ UNCHANGED << spawns, uiVars >>

Item_Progress ==
    /\ worker.pc = "item_progress"
    /\ LET completed == worker.completed + 1
           w == [worker EXCEPT !.completed = completed]
       IN  /\ Send(Progress(completed, worker.total))
           /\ worker' = IF worker.i < Len(BatchItems(worker.apps, worker.batch))
                        THEN [w EXCEPT !.i = worker.i + 1, !.pc = "item_start"]
                        ELSE EnterBatch(w, worker.batch + 1)
    /\ UNCHANGED << spawns, uiVars >>

RunInstall_Done_counts_attempts ==
    /\ worker.pc = "done"
    /\ Send(Done(Len(worker.summary.succeeded) + Len(worker.summary.skipped),
                 Len(worker.summary.failed),
                 Len(worker.summary.skipped)))
    /\ worker' = [worker EXCEPT !.pc = "run_install_return"]
    /\ UNCHANGED << spawns, uiVars >>

RunInstall_Done ==
    /\ worker.pc = "done"
    /\ Send(Done(Len(worker.summary.succeeded), Len(worker.summary.failed),
                 Len(worker.summary.skipped)))
    /\ worker' = [worker EXCEPT !.pc = "run_install_return"]
    /\ UNCHANGED << spawns, uiVars >>

\* run_install has returned its summary to the caller
RunInstall_Return ==
    /\ worker.pc = "run_install_return"
    /\ worker' = [worker EXCEPT !.pc = "setup_github"]
    /\ UNCHANGED << chan, sent, spawns, uiVars >>

RunInstall(Outs) ==
    \/ RunInstall_Begin
    \/ RunInstall_HomebrewNotFound
    \/ Bootstrap_Log
    \/ Bootstrap_Spawn(Outs)
    \/ Bootstrap_Ok
    \/ Bootstrap_Fatal
    \/ RunInstall_HomebrewFound
    \/ RunInstall_Updated
    \/ RunCommand_Log
    \/ RunCommand_Spawn(Outs)
    \/ RunCommand_Stream
    \/ Batch_PhaseStart
    \/ Item_Start
    \/ Item_CheckInstalled(Outs)
    \/ Item_Skipped
    \/ InstallScript_Log
    \/ InstallScript_Spawn(Outs)
    \/ Item_Result
    \/ Item_Progress
    \/ RunInstall_Done
    \/ RunInstall_Return

(***************************************************************************)
(* run_install called on its own: any list of catalog entries in catalog   *)
(* order, with and without Homebrew, the receiver kept by a caller that    *)
(* does not read it until the call has returned.                           *)
(***************************************************************************)
\* the process results followed for run_install on its own
ExecOutcomes ==
    { ProcOk, ProcFail, ProcNoSpawn,
      [spawned |-> TRUE, code |-> 1, stdout |-> << >>, stderr |-> << >>],
      [spawned |-> TRUE, code |-> 0, stdout |-> << "ok", NL, NL, "done" >>,
       stderr |-> << "warning", NL >>] }

InitExec ==
    /\ wizard = WizardState_default
    /\ boot_sequence = BootSequence_new
    /\ \E h \in BOOLEAN, sel \in SUBSET CatalogIds :
           LET w == [WizardState_default EXCEPT !.selected_apps = sel]
           IN  /\ app = [App_new(h) EXCEPT !.install_receiver = Some("rx")]
               /\ worker = Worker_spawn([has_homebrew |-> h], get_selected_apps(w), w)
    /\ pc = "none"
    /\ chan = << >>
    /\ sent = << >>
    /\ spawns = << >>
    /\ last = NoOp
    /\ toggled = << >>

NextExec == RunInstall(ExecOutcomes)

SpecExec == InitExec /\ [][NextExec]_vars

(***************************************************************************)
(* main.rs: App and the loop of run_app.  pc names the part of the loop    *)
(* body that is executed next:                                             *)
(*   "poll"              draw and event::poll                              *)
(*   "tick_after_key"    the tick check, reached after a key was read      *)
(*   "install"           the install-message section, draining             *)
(*   "thread_check"      the is_finished check of the install section      *)
(*   "exited"            the loop was left                                 *)
(* The quit check at the end of the body belongs to the step that ends the *)
(* install-message section.                                                *)
(***************************************************************************)
workerVars == << worker, sent, spawns >>

\* the quit check that ends the loop body
LoopEnd(a) == IF a.should_quit THEN "exited" ELSE "poll"

\* start_installation: the App fields it writes
\* start_installation that leaves is_installing alone
start_installation_app_not_installing(a, w) ==
    [a EXCEPT !.install_progress = 0,
              !.install_completed = 0,
              !.install_log = << << "[INIT] Starting installation sequence..." >> >>,
              !.install_total = Len(get_selected_apps(w)),
              !.install_receiver = Some("rx"),
              !.install_thread = Some("handle")]

start_installation_app(a, w) ==
    [a EXCEPT !.is_installing = TRUE,
              !.install_progress = 0,
              !.install_completed = 0,
              !.install_log = << << "[INIT] Starting installation sequence..." >> >>,
              !.install_total = Len(get_selected_apps(w)),
              !.install_receiver = Some("rx"),
              !.install_thread = Some("handle")]

\* App::tick; the animations are left out
\* App::tick without the advance after the boot sequence
tick_wizard_stays_in_boot(w, b) == w

\* App::tick with a completion screen that returns to the boot screen
tick_wizard_restarts_after_complete(w, b) ==
    CASE w.phase = "Boot" /\ BootSequence_tick(b).complete -> advance(w)
      [] w.phase = "Complete" -> [w EXCEPT !.phase = "Boot"]
      [] OTHER -> w

tick_wizard(w, b) ==
    IF w.phase = "Boot" /\ BootSequence_tick(b).complete
    THEN advance(w)
    ELSE w

\* App::tick with a boot sequence that starts again when it is complete
tick_boot_replays(w, b) ==
    IF w.phase = "Boot"
    THEN (IF b.complete THEN BootSequence_new ELSE BootSequence_tick(b))
    ELSE b

tick_boot(w, b) ==
    IF w.phase = "Boot" THEN BootSequence_tick(b) ELSE b

handle_key_ctrl_c_any_phase ==
    /\ app' = [app EXCEPT
           !.install_receiver = NoneV,
           !.is_installing = FALSE,
           !.install_log = Append(@, << "[ABORT] Installation interrupted by user" >>)]
    /\ chan' = << >>
    /\ wizard' = [wizard EXCEPT !.phase = "Complete"]
    /\ UNCHANGED << boot_sequence, workerVars >>

handle_key_ctrl_c_keeps_receiver ==
    IF app.is_installing /\ wizard.phase = "Install"
    THEN /\ app' = [app EXCEPT
                !.install_log = Append(@, << "[ABORT] Installation interrupted by user" >>)]
         /\ wizard' = [wizard EXCEPT !.phase = "Complete"]
         /\ UNCHANGED << boot_sequence, chan, workerVars >>
    ELSE /\ app' = [app EXCEPT !.should_quit = TRUE]
         /\ UNCHANGED << wizard, boot_sequence, chan, workerVars >>

\* handle_key with CONTROL and 'c'
\* handle_key with CONTROL and 'c' where the abort quits as well
handle_key_ctrl_c_abort_quits ==
    IF app.is_installing /\ wizard.phase = "Install"
    THEN /\ app' = [app EXCEPT
                !.install_receiver = NoneV,
                !.is_installing = FALSE,
                !.should_quit = TRUE,
                !.install_log = Append(@, << "[ABORT] Installation interrupted by user" >>)]
         /\ chan' = << >>
         /\ wizard' = [wizard EXCEPT !.phase = "Complete"]
         /\ UNCHANGED << boot_sequence, workerVars >>
    ELSE /\ app' = [app EXCEPT !.should_quit = TRUE]
         /\ UNCHANGED << wizard, boot_sequence, chan, workerVars >>

handle_key_ctrl_c ==
    IF app.is_installing /\ wizard.phase = "Install"
    THEN /\ app' = [app EXCEPT
                !.install_receiver = NoneV,
                !.is_installing = FALSE,
                !.install_log = Append(@, << "[ABORT] Installation interrupted by user" >>)]
         /\ chan' = << >>
         /\ wizard' = [wizard EXCEPT !.phase = "Complete"]
         /\ UNCHANGED << boot_sequence, workerVars >>
    ELSE /\ app' = [app EXCEPT !.should_quit = TRUE]
         /\ UNCHANGED << wizard, boot_sequence, chan, workerVars >>

\* handle_review_input
handle_review_input(key) ==
    CASE IsKey(key, "Enter", { "y" }) ->
             \* start_installation(); wizard.advance()
             /\ app' = start_installation_app(app, wizard)
             /\ worker' = Worker_spawn(app.system, get_selected_apps(wizard), wizard)
             /\ chan' = << >>
             /\ wizard' = advance(wizard)
             /\ UNCHANGED << boot_sequence, sent, spawns >>
      [] IsKey(key, "Esc", { "n" }) ->
             /\ wizard' = go_back(wizard)
             /\ UNCHANGED << boot_sequence, app, chan, workerVars >>
      [] IsKey(key, "Up", { "k" }) ->
             /\ wizard' = [wizard EXCEPT !.scroll_offset = SaturatingDec(@)]
             /\ UNCHANGED << boot_sequence, app, chan, workerVars >>
      [] IsKey(key, "Down", { "j" }) ->
             /\ wizard' = [wizard EXCEPT !.scroll_offset = @ + 1]
             /\ UNCHANGED << boot_sequence, app, chan, workerVars >>
      [] OTHER ->
             UNCHANGED << wizard, boot_sequence, app, chan, workerVars >>

\* handle_key without CONTROL-c: the match on the phase
\* handle_key with a Complete screen that Esc leaves for Review
handle_key_phase_back_to_review(key) ==
    CASE wizard.phase = "Boot" ->
             /\ boot_sequence' = BootSequence_skip(boot_sequence)
             /\ UNCHANGED << wizard, app, chan, workerVars >>
      [] wizard.phase = "Identity" ->
             /\ wizard' = handle_identity_input(wizard, key)
             /\ UNCHANGED << boot_sequence, app, chan, workerVars >>
      [] wizard.phase = "Shell" ->
             /\ wizard' = handle_shell_input(wizard, key)
             /\ UNCHANGED << boot_sequence, app, chan, workerVars >>
      [] wizard.phase = "DevTools" ->
             /\ wizard' = handle_devtools_input(wizard, key)
             /\ UNCHANGED << boot_sequence, app, chan, workerVars >>
      [] wizard.phase = "Apps" ->
             /\ wizard' = handle_apps_input(wizard, key)
             /\ UNCHANGED << boot_sequence, app, chan, workerVars >>
      [] wizard.phase = "Review" -> handle_review_input(key)
      [] wizard.phase = "Install" ->
             UNCHANGED << wizard, boot_sequence, app, chan, workerVars >>
      [] wizard.phase = "Complete" ->
             /\ app' = IF IsKey(key, "Enter", { "q" })
                       THEN [app EXCEPT !.should_quit = TRUE]
                       ELSE app
             /\ wizard' = IF key.code = "Esc"
                          THEN [wizard EXCEPT !.phase = "Review"]
                          ELSE wizard
             /\ UNCHANGED << boot_sequence, chan, workerVars >>

handle_key_phase(key) ==
    CASE wizard.phase = "Boot" ->
             /\ boot_sequence' = BootSequence_skip(boot_sequence)
             /\ UNCHANGED << wizard, app, chan, workerVars >>
      [] wizard.phase = "Identity" ->
             /\ wizard' = handle_identity_input(wizard, key)
             /\ UNCHANGED << boot_sequence, app, chan, workerVars >>
      [] wizard.phase = "Shell" ->
             /\ wizard' = handle_shell_input(wizard, key)
             /\ UNCHANGED << boot_sequence, app, chan, workerVars >>
      [] wizard.phase = "DevTools" ->
             /\ wizard' = handle_devtools_input(wizard, key)
             /\ UNCHANGED << boot_sequence, app, chan, workerVars >>
      [] wizard.phase = "Apps" ->
             /\ wizard' = handle_apps_input(wizard, key)
             /\ UNCHANGED << boot_sequence, app, chan, workerVars >>
      [] wizard.phase = "Review" -> handle_review_input(key)
      [] wizard.phase = "Install" ->
             UNCHANGED << wizard, boot_sequence, app, chan, workerVars >>
      [] wizard.phase = "Complete" ->
             /\ app' = IF IsKey(key, "Enter", { "q" })
                       THEN [app EXCEPT !.should_quit = TRUE]
                       ELSE app
             /\ UNCHANGED << wizard, boot_sequence, chan, workerVars >>

handle_key(key, ctrl) ==
    IF ctrl /\ key = Char("c")
    THEN handle_key_ctrl_c
    ELSE handle_key_phase(key)

\* The keys the model lets the user press in a state: no character is typed
\* into the identity form (its fields keep their defaults), the Review screen
\* is scrolled up to MaxScroll and is confirmed with at most MaxItems
\* selected entries.
KeyWithinBounds(key, ctrl) ==
    \/ ctrl /\ key = Char("c")
    \/ CASE wizard.phase = "Identity" /\ key.code = "Char" /\ wizard.input_field < 3 ->
                FALSE
         [] wizard.phase = "Review" /\ IsKey(key, "Down", { "j" }) ->
                wizard.scroll_offset < MaxScroll
         [] wizard.phase = "Review" /\ IsKey(key, "Enter", { "y" }) ->
                Len(get_selected_apps(wizard)) <= MaxItems
         [] OTHER -> TRUE

\* event::poll returned true and event::read a key
PollKey(Events) ==
    /\ pc = "poll"
    /\ \E ev \in Events :
           /\ KeyWithinBounds(ev.key, ev.ctrl)
           /\ handle_key(ev.key, ev.ctrl)
    /\ pc' = "tick_after_key"
    /\ UNCHANGED << last, toggled >>

\* event::poll returned true and event::read a key: the tick is due or
\* not, as time has passed
Tick ==
    /\ pc = "tick_after_key"
    /\ wizard' = tick_wizard(wizard, boot_sequence)
    /\ boot_sequence' = tick_boot(wizard, boot_sequence)
    /\ pc' = "install"
    /\ UNCHANGED << app, chan, workerVars, last, toggled >>

\* event::poll waited for tick_rate and returned false (or the event read
\* was no key event): last_tick.elapsed() >= tick_rate holds, app.tick()
PollTimeout ==
    /\ pc = "poll"
    /\ wizard' = tick_wizard(wizard, boot_sequence)
    /\ boot_sequence' = tick_boot(wizard, boot_sequence)
    /\ pc' = "install"
    /\ UNCHANGED << app, chan, workerVars, last, toggled >>

\* last_tick.elapsed() < tick_rate, possible when a key ended the poll early
TickNotDue ==
    /\ pc = "tick_after_key"
    /\ pc' = "install"
    /\ UNCHANGED << wizard, boot_sequence, app, chan, workerVars, last, toggled >>

\* the install section entered for as long as a thread handle is held
InstallActive_while_thread_held == app.install_thread # NoneV

InstallActive == app.is_installing /\ wizard.phase = "Install"

\* the condition of the install-message section is false
InstallSectionSkipped ==
    /\ pc = "install"
    /\ ~ InstallActive
    /\ pc' = LoopEnd(app)
    /\ UNCHANGED << wizard, boot_sequence, app, chan, workerVars, last, toggled >>

\* the match on one received message
\* the fold with a Progress event that counts the item once more
Fold_progress_counts_again(a, msg) ==
    CASE msg.type = "PhaseStart" ->
             [a EXCEPT !.install_log = Append(@, << "[PHASE]", msg.phase >>)]
      [] msg.type = "PackageStart" ->
             [a EXCEPT !.current_package = Some(msg.name),
                       !.install_log = Append(@, << "[INSTALL]", msg.name, msg.method >>)]
      [] msg.type = "PackageSuccess" ->
             [a EXCEPT !.current_package = NoneV,
                       !.install_log = Append(@, << "[OK]", msg.name >>),
                       !.install_completed = @ + 1,
                       !.install_succeeded = @ + 1]
      [] msg.type = "PackageSkipped" ->
             [a EXCEPT !.current_package = NoneV,
                       !.install_log = Append(@, << "[SKIP]", msg.name, msg.reason >>),
                       !.install_completed = @ + 1,
                       !.install_skipped = @ + 1]
      [] msg.type = "PackageFailed" ->
             [a EXCEPT !.current_package = NoneV,
                       !.install_log = Append(@, << "[FAIL]", msg.name, msg.error >>),
                       !.install_completed = @ + 1,
                       !.install_failed = @ + 1]
      [] msg.type = "Log" ->
             [a EXCEPT !.install_log = Append(@, msg.line)]
      [] msg.type = "Progress" ->
             [a EXCEPT !.install_completed = @ + 1,
                       !.install_total = msg.total]
      [] msg.type = "Done" ->
             [a EXCEPT !.install_log =
                           Append(@, << "[DONE]", msg.succeeded, msg.failed, msg.skipped >>)]
      [] msg.type = "FatalError" ->
             [a EXCEPT !.install_log = Append(@, << "[FATAL]", msg.err >>),
                       !.error_message = Some(msg.err)]

Fold(a, msg) ==
    CASE msg.type = "PhaseStart" ->
             [a EXCEPT !.install_log = Append(@, << "[PHASE]", msg.phase >>)]
      [] msg.type = "PackageStart" ->
             [a EXCEPT !.current_package = Some(msg.name),
                       !.install_log = Append(@, << "[INSTALL]", msg.name, msg.method >>)]
      [] msg.type = "PackageSuccess" ->
             [a EXCEPT !.current_package = NoneV,
                       !.install_log = Append(@, << "[OK]", msg.name >>),
                       !.install_completed = @ + 1,
                       !.install_succeeded = @ + 1]
      [] msg.type = "PackageSkipped" ->
             [a EXCEPT !.current_package = NoneV,
                       !.install_log = Append(@, << "[SKIP]", msg.name, msg.reason >>),
                       !.install_completed = @ + 1,
                       !.install_skipped = @ + 1]
      [] msg.type = "PackageFailed" ->
             [a EXCEPT !.current_package = NoneV,
                       !.install_log = Append(@, << "[FAIL]", msg.name, msg.error >>),
                       !.install_completed = @ + 1,
                       !.install_failed = @ + 1]
      [] msg.type = "Log" ->
             [a EXCEPT !.install_log = Append(@, msg.line)]
      [] msg.type = "Progress" ->
             [a EXCEPT !.install_completed = msg.completed,
                       !.install_total = msg.total]
      [] msg.type = "Done" ->
             [a EXCEPT !.install_log =
                           Append(@, << "[DONE]", msg.succeeded, msg.failed, msg.skipped >>)]
      [] msg.type = "FatalError" ->
             [a EXCEPT !.install_log = Append(@, << "[FATAL]", msg.err >>),
                       !.error_message = Some(msg.err)]

DrainOne_newest_first ==
    /\ pc = "install"
    /\ InstallActive
    /\ app.install_receiver # NoneV
    /\ chan # << >>
    /\ app' = Fold(app, chan[Len(chan)])
    /\ chan' = SubSeq(chan, 1, Len(chan) - 1)
    /\ UNCHANGED << wizard, boot_sequence, pc, workerVars, last, toggled >>

\* one iteration of "while let Ok(msg) = rx.try_recv()"
DrainOne ==
    /\ pc = "install"
    /\ InstallActive
    /\ app.install_receiver # NoneV
    /\ chan # << >>
    /\ app' = Fold(app, Head(chan))
    /\ chan' = Tail(chan)
    /\ UNCHANGED << wizard, boot_sequence, pc, workerVars, last, toggled >>

\* install_progress as a whole percentage
Percent(completed, total) == (completed * 100) \div total

\* try_recv found nothing (or there is no receiver): the progress update
DrainEnd ==
    /\ pc = "install"
    /\ InstallActive
    /\ app.install_receiver = NoneV \/ chan = << >>
    /\ app' = IF app.install_total > 0
              THEN [app EXCEPT !.install_progress =
                                   Percent(app.install_completed, app.install_total)]
              ELSE app
    /\ pc' = "thread_check"
    /\ UNCHANGED << wizard, boot_sequence, chan, workerVars, last, toggled >>

\* JoinHandle::is_finished
thread_done == app.install_thread # NoneV /\ worker.pc = "finished"

\* the check whether the install thread has finished, and the quit check
ThreadCheck_keeps_handle ==
    /\ pc = "thread_check"
    /\ IF thread_done
       THEN /\ app' = [app EXCEPT
                   !.install_receiver = NoneV,
                   !.install_progress = 100,
                   !.install_log = Append(@, << "[COMPLETE] Installation finished!" >>)]
            /\ chan' = << >>
            /\ wizard' = wizard
            /\ pc' = LoopEnd(app)
       ELSE /\ pc' = LoopEnd(app)
            /\ UNCHANGED << wizard, app, chan >>
    /\ UNCHANGED << boot_sequence, workerVars, last, toggled >>

ThreadCheck ==
    /\ pc = "thread_check"
    /\ IF thread_done
       THEN /\ app' = [app EXCEPT
                   !.install_thread = NoneV,
                   !.install_receiver = NoneV,
                   !.is_installing = FALSE,
                   !.install_progress = 100,
                   !.install_log = Append(@, << "[COMPLETE] Installation finished!" >>)]
            /\ chan' = << >>
            /\ wizard' = advance(wizard)
            /\ pc' = LoopEnd(app)
       ELSE /\ pc' = LoopEnd(app)
            /\ UNCHANGED << wizard, app, chan >>
    /\ UNCHANGED << boot_sequence, workerVars, last, toggled >>

\* the install thread: run_install, then the setup steps of the closure
SendAll(events) ==
    /\ chan' = IF app.install_receiver # NoneV THEN chan \o events ELSE chan
    /\ sent' = sent \o events

\* github::setup_github(&wizard_clone, &system, &tx)
SetupGithub(Ms) ==
    /\ worker.pc = "setup_github"
    /\ \E e \in Ms :
           LET r == setup_github(worker.wizard_clone[1], e)
           IN  /\ SendAll(r.events)
               /\ spawns' = spawns \o r.spawns
    /\ worker' = [worker EXCEPT !.pc = "generate_configs"]
    /\ UNCHANGED uiVars

\* config::generate_configs(&wizard_clone, &system, &tx); the closure then
\* returns and the thread is finished
GenerateConfigs ==
    /\ worker.pc = "generate_configs"
    /\ \E events \in ConfigEvents : SendAll(events)
    /\ worker' = [worker EXCEPT !.pc = "finished"]
    /\ UNCHANGED << spawns, uiVars >>

\* the closure of the thread spawned by start_installation
InstallThread(Outs, Ms) ==
    \/ RunInstall(Outs)
    \/ SetupGithub(Ms)
    \/ GenerateConfigs

\* the key events followed with the whole application running
KeyEvents ==
    { [key |-> k, ctrl |-> FALSE] :
          k \in { Key("Enter"), Key("Esc"), Key("Tab"), Char(" "), Char("q") } }
    \cup { [key |-> Char("c"), ctrl |-> TRUE] }

Init ==
    /\ wizard = WizardState_default
    /\ boot_sequence = BootSequence_new
    /\ \E h \in BOOLEAN : app = App_new(h)
    /\ pc = "poll"
    /\ worker = Worker_none
    /\ chan = << >>
    /\ sent = << >>
    /\ spawns = << >>
    /\ last = NoOp
    /\ toggled = << >>

Next ==
    \/ PollKey(KeyEvents)
    \/ PollTimeout
    \/ Tick
    \/ TickNotDue
    \/ InstallSectionSkipped
    \/ DrainOne
    \/ DrainEnd
    \/ ThreadCheck
    \/ InstallThread(Outcomes, Machines)

Spec == Init /\ [][Next]_vars

(***************************************************************************)
(* Unit-level specification of WizardState: the methods applied to a       *)
(* WizardState whose public fields were set by the caller, as the tests of *)
(* wizard.rs do.                                                           *)
(***************************************************************************)
appVars == << boot_sequence, app, pc, worker, chan, sent, spawns >>

InitWizard ==
    /\ \E p \in WizardPhase, c \in 0..MaxCursor, s \in 0..MaxCursor :
           wizard = [WizardState_default EXCEPT !.phase = p,
                                                !.cursor_position = c,
                                                !.scroll_offset = s]
    /\ boot_sequence = BootSequence_new
    /\ app = App_new(TRUE)
    /\ pc = "none"
    /\ worker = Worker_none
    /\ chan = << >>
    /\ sent = << >>
    /\ spawns = << >>
    /\ last = NoOp
    /\ toggled = << >>

CallAdvance ==
    /\ wizard' = advance(wizard)
    /\ last' = [op |-> "advance", arg |-> NoneV, ret |-> Some(advance_ret(wizard))]
    /\ UNCHANGED << toggled, appVars >>

CallGoBack ==
    /\ wizard' = go_back(wizard)
    /\ last' = [op |-> "go_back", arg |-> NoneV, ret |-> Some(go_back_ret(wizard))]
    /\ UNCHANGED << toggled, appVars >>

CallToggleApp ==
    \E id \in AppIds :
        /\ Len(toggled) < MaxToggles
        /\ wizard' = toggle_app(wizard, id)
        /\ last' = [op |-> "toggle_app", arg |-> Some(id), ret |-> NoneV]
        /\ toggled' = Append(toggled, id)
        /\ UNCHANGED appVars

CallGetSelectedApps ==
    /\ last' = [op |-> "get_selected_apps", arg |-> NoneV,
                ret |-> Some(get_selected_apps(wizard))]
    /\ UNCHANGED << wizard, toggled, appVars >>

NextWizard ==
    \/ CallAdvance
    \/ CallGoBack
    \/ CallToggleApp
    \/ CallGetSelectedApps

SpecWizard == InitWizard /\ [][NextWizard]_vars

(***************************************************************************)
(* Properties of WizardState and WizardPhase (SpecWizard)                  *)
(***************************************************************************)
\* the fields of a WizardState other than phase, cursor_position, scroll_offset
Rest(w) ==
    [f \in (DOMAIN w) \ { "phase", "cursor_position", "scroll_offset" } |-> w[f]]

\* C1: advance() from any phase other than Complete moves to the next phase
\* in declaration order, resets cursor_position and scroll_offset to 0 and
\* returns true; at Complete it returns false and changes no field, on every
\* call.
C1_AdvanceContract ==
    [][last'.op = "advance" =>
          IF wizard.phase # "Complete"
          THEN /\ wizard'.phase = WizardPhase_all[index(wizard.phase) + 2]
               /\ wizard'.cursor_position = 0
               /\ wizard'.scroll_offset = 0
               /\ Rest(wizard') = Rest(wizard)
               /\ last'.ret = Some(TRUE)
          ELSE /\ wizard' = wizard
               /\ last'.ret = Some(FALSE)]_vars

C1_Witness ==
    /\ last.op = "advance"
    /\ last.ret = Some(FALSE)
    /\ wizard.phase = "Complete"

\* C2: go_back() called while phase is Boot returns false and changes no
\* field of the state.
C2_GoBackAtBoot ==
    [][(last'.op = "go_back" /\ wizard.phase = "Boot") =>
          (wizard' = wizard /\ last'.ret = Some(FALSE))]_vars

C2_Witness ==
    /\ last.op = "go_back"
    /\ last.ret = Some(FALSE)
    /\ wizard.phase = "Boot"

\* C4: go_back() from any phase other than Boot moves to the immediately
\* preceding phase, resets cursor_position and scroll_offset to 0 and
\* returns true; from Shell it yields Identity, from Identity it yields Boot.
C4_GoBackContract ==
    [][(last'.op = "go_back" /\ wizard.phase # "Boot") =>
          /\ wizard'.phase = WizardPhase_all[index(wizard.phase)]
          /\ wizard'.cursor_position = 0
          /\ wizard'.scroll_offset = 0
          /\ last'.ret = Some(TRUE)
          /\ (wizard.phase = "Shell" => wizard'.phase = "Identity")
          /\ (wizard.phase = "Identity" => wizard'.phase = "Boot")]_vars

C4_Witness ==
    /\ last.op = "go_back"
    /\ last.ret = Some(TRUE)
    /\ wizard.phase = "Boot"

\* C6: all() lists the 8 phases Boot..Complete, index(p) is p's position,
\* next and prev are mutual inverses away from the two ends, and
\* next(Complete) and prev(Boot) are None.
C6_PhaseOrder ==
    LET p == wizard.phase
    IN  /\ Len(WizardPhase_all) = 8
        /\ WizardPhase_all[1] = "Boot"
        /\ WizardPhase_all[8] = "Complete"
        /\ \E i \in 1..8 : WizardPhase_all[i] = p /\ index(p) = i - 1
        /\ (p # "Complete" =>
               next(p) # NoneV /\ prev(next(p)[1]) = Some(p))
        /\ (p # "Boot" =>
               prev(p) # NoneV /\ next(prev(p)[1]) = Some(p))
        /\ (p = "Complete" => next(p) = NoneV)
        /\ (p = "Boot" => prev(p) = NoneV)

C6_Witness ==
    /\ wizard.phase = "Install"
    /\ last.op = "go_back"
    /\ last.ret = Some(TRUE)

\* C7: toggle_app(id) flips the membership of id in the selection set and of
\* no other id, and a second toggle_app(id) restores the set, for catalog ids
\* and for an id outside the catalog.
C7_ToggleFlips ==
    [][last'.op = "toggle_app" =>
          LET id == last'.arg[1]
          IN  /\ (id \in wizard'.selected_apps) # (id \in wizard.selected_apps)
              /\ wizard'.selected_apps \ { id } = wizard.selected_apps \ { id }
              /\ toggle_app(wizard', id).selected_apps = wizard.selected_apps]_vars

C7_Witness ==
    /\ last.op = "toggle_app"
    /\ Len(toggled) >= 2
    /\ toggled[Len(toggled)] = UnknownId
    /\ toggled[Len(toggled) - 1] = UnknownId
    /\ UnknownId \notin wizard.selected_apps

\* position of a catalog entry in CATALOG
CatalogPos(a) == CHOOSE k \in 1..Len(CATALOG) : CATALOG[k] = a

\* C8: get_selected_apps() returns the catalog entries whose id is selected,
\* each once, in catalog order, whatever the order of the toggles; ids
\* outside the catalog contribute nothing.
C8_SelectedInCatalogOrder ==
    last.op = "get_selected_apps" =>
        LET r == last.ret[1]
        IN  /\ \A i \in 1..Len(r) : \E k \in 1..Len(CATALOG) : CATALOG[k] = r[i]
            /\ \A i, j \in 1..Len(r) :
                   i < j => CatalogPos(r[i]) < CatalogPos(r[j])
            /\ { r[i].id : i \in 1..Len(r) } = wizard.selected_apps \cap CatalogIds
            /\ Len(r) = Cardinality(wizard.selected_apps \cap CatalogIds)

C8_Witness ==
    /\ last.op = "get_selected_apps"
    /\ toggled = << "rustup", UnknownId, "vscode" >>
    /\ Len(last.ret[1]) = 3
    /\ last.ret[1][1].id = "vscode"
    /\ last.ret[1][3].id = "rustup"

(***************************************************************************)
(* Properties of the whole application (Spec)                              *)
(***************************************************************************)
\* C3 as stated: once the phase has left Boot, no step makes it Boot again.
C3_BootNeverReentered ==
    [][wizard.phase # "Boot" => wizard'.phase # "Boot"]_vars

\* C3, amended: the phase becomes Boot again only by go_back() from
\* Identity, called by the key handler of the Identity phase; no tick, no
\* step of the install section and no key handled in another phase makes
\* the phase Boot.
C3_BootReenteredOnlyFromIdentity ==
    [][(wizard.phase # "Boot" /\ wizard'.phase = "Boot") =>
          /\ wizard.phase = "Identity"
          /\ pc = "poll" /\ pc' = "tick_after_key"
          /\ wizard' = go_back(wizard)
          /\ go_back_ret(wizard)]_vars

C3_Witness ==
    /\ wizard.phase = "Boot"
    /\ wizard.input_field = 1
    /\ boot_sequence.complete

\* C5: in every step of the application (key handling, tick, message
\* folding, the thread check, the CONTROL-c abort, the install thread's
\* steps) the phase index stays the same or changes by exactly 1.
C5_PhaseStepsByOne ==
    [][index(wizard'.phase) - index(wizard.phase) \in { -1, 0, 1 }]_vars

C5_Witness ==
    /\ wizard.phase = "Complete"
    /\ app.install_thread # NoneV
    /\ ~ app.is_installing
    /\ worker.pc # "finished"

(***************************************************************************)
(* Properties of run_install (SpecExec)                                    *)
(***************************************************************************)
OfType(type) == LET Is(e) == e.type = type IN SelectSeq(sent, Is)

\* run_install has returned
RunInstallReturned ==
    worker.pc \in { "run_install_return", "setup_github", "generate_configs", "finished" }

\* the bootstrap step was passed: no FatalError was sent
BootstrapPassed == OfType("FatalError") = << >>

\* C9: when run_install over N items has passed the bootstrap step and
\* returned, exactly one Done event was sent and its succeeded + failed +
\* skipped is N; one Progress event was sent per item, each with total N,
\* and for N > 0 the last of them has completed = total = N.
C9_FinalProgressAndDone ==
    (RunInstallReturned /\ BootstrapPassed) =>
        LET N == Len(worker.apps)
            progress == OfType("Progress")
            done == OfType("Done")
        IN  /\ Len(done) = 1
            /\ done[1].succeeded + done[1].failed + done[1].skipped = N
            /\ Len(progress) = N
            /\ \A i \in 1..Len(progress) : progress[i].total = N
            /\ (N > 0 => /\ progress[Len(progress)].completed = N
                         /\ progress[Len(progress)].total = N)

C9_Witness ==
    /\ RunInstallReturned
    /\ BootstrapPassed
    /\ Len(worker.apps) = 3
    /\ OfType("Done") = << Done(1, 1, 1) >>

\* the entries whose already-installed check was run and answered yes
AlreadyInstalled(a) ==
    \E i \in 1..Len(spawns) :
        spawns[i].cmd = IsInstalledCommand(a) /\ spawns[i].ok

\* an installer process was run for the entry
InstallerInvoked(a) ==
    \E i \in 1..Len(spawns) :
        spawns[i].cmd \in { BrewInstallCommand(a), install_app_command(a) }

HasEvent(type, a) ==
    \E i \in 1..Len(sent) : sent[i].type = type /\ sent[i].name = a.name

BrewItems ==
    { worker.apps[i] : i \in { j \in 1..Len(worker.apps) : BatchOf(worker.apps[j]) \in { 1, 2 } } }

\* C10 as stated: an item found already installed never triggers an
\* installer invocation, yields a PackageSkipped event and never a
\* PackageStart, PackageSuccess or PackageFailed event.
C10_SkippedItemHasNoStart ==
    \A a \in BrewItems :
        AlreadyInstalled(a) =>
            /\ ~ InstallerInvoked(a)
            /\ ~ HasEvent("PackageStart", a)
            /\ ~ HasEvent("PackageSuccess", a)
            /\ ~ HasEvent("PackageFailed", a)
            /\ (RunInstallReturned => HasEvent("PackageSkipped", a))

\* C10, amended: an item found already installed never triggers an
\* installer invocation; after its PackageStart event, which is sent before
\* the check, it yields exactly one PackageSkipped event (sent by the end of
\* the run) and never a PackageSuccess or PackageFailed event.
C10_SkippedItemNeverInstalled ==
    \A a \in BrewItems :
        AlreadyInstalled(a) =>
            /\ ~ InstallerInvoked(a)
            /\ HasEvent("PackageStart", a)
            /\ ~ HasEvent("PackageSuccess", a)
            /\ ~ HasEvent("PackageFailed", a)
            /\ (RunInstallReturned =>
                   Len(SelectSeq(sent, LAMBDA e : e = PackageSkipped(a.name, "Already installed"))) = 1)
            /\ \A i \in 1..Len(sent) :
                   (sent[i].type = "PackageSkipped" /\ sent[i].name = a.name) =>
                       sent[i].reason = "Already installed"

C10_Witness ==
    /\ RunInstallReturned
    /\ \E a \in BrewItems :
           /\ AlreadyInstalled(a)
           /\ HasEvent("PackageSkipped", a)
    /\ \E a \in BrewItems : InstallerInvoked(a)

\* the bootstrap command of bootstrap_homebrew
BootstrapCommand == << "/bin/bash", "-c", "homebrew install.sh" >>

\* Homebrew was absent and the bootstrap command was run and failed
BootstrapFailed ==
    \E i \in 1..Len(spawns) : spawns[i].cmd = BootstrapCommand /\ ~ spawns[i].ok

ItemEventTypes ==
    { "PackageStart", "PackageSuccess", "PackageSkipped", "PackageFailed",
      "Progress", "Done" }

\* C11: when Homebrew is absent and the bootstrap command fails, run_install
\* sends no PackageStart, PackageSuccess, PackageSkipped, PackageFailed,
\* Progress or Done event at any time, and once it has returned it has sent
\* exactly one FatalError event and its summary has three empty collections.
C11_FatalBootstrap ==
    BootstrapFailed =>
        /\ \A i \in 1..Len(sent) : sent[i].type \notin ItemEventTypes
        /\ Len(OfType("FatalError")) <= 1
        /\ RunInstallReturned =>
               /\ Len(OfType("FatalError")) = 1
               /\ worker.summary = InstallSummary_default

C11_Witness ==
    /\ BootstrapFailed
    /\ RunInstallReturned
    /\ Len(worker.apps) = 3
    /\ OfType("FatalError") =
           << FatalError(<< "Failed to install Homebrew: ",
                            << "Homebrew install failed: ", << "permission denied" >> >> >>) >>

(***************************************************************************)
(* Properties of the install thread inside the application (Spec)          *)
(***************************************************************************)
\* C12 as stated: after the FatalError event the install thread sends no
\* further event and runs no further process.
C12_NothingAfterFatal ==
    BootstrapFailed =>
        /\ \A i \in 1..Len(sent) : sent[i].type = "FatalError" => i = Len(sent)
        /\ spawns[Len(spawns)].cmd = BootstrapCommand

(***************************************************************************)
(* Properties of run_install's event stream, continued (SpecExec)          *)
(***************************************************************************)
TerminalTypes == { "PackageSuccess", "PackageSkipped", "PackageFailed" }

\* the positions in the event stream of the events of one kind for one item
EventsOf(types, a) ==
    { i \in 1..Len(sent) : sent[i].type \in types /\ sent[i].name = a.name }

AppsOfRun == { worker.apps[i] : i \in 1..Len(worker.apps) }

\* C13: in the event stream of run_install every item has at most one
\* PackageStart and one terminal event; its PackageStart comes before its
\* terminal event, the event sent right after the terminal event is the
\* Progress event counting that item, and all of these come before the Done
\* event, which is sent only when every item has had its three events; the
\* PhaseStart of the item's batch comes before the item's PackageStart.
C13_EventOrder ==
    /\ \A a \in AppsOfRun :
           LET starts == EventsOf({ "PackageStart" }, a)
               terms == EventsOf(TerminalTypes, a)
           IN  /\ Cardinality(starts) <= 1
               /\ Cardinality(terms) <= 1
               /\ \A s \in starts :
                      \E p \in 1..(s - 1) :
                          sent[p] = PhaseStart(BatchPhaseName[BatchOf(a)])
               /\ \A t \in terms :
                      /\ \E s \in starts : s < t
                      /\ t < Len(sent) =>
                             /\ sent[t + 1].type = "Progress"
                             /\ sent[t + 1].completed =
                                    Cardinality({ u \in 1..t : sent[u].type \in TerminalTypes })
    /\ \A d \in 1..Len(sent) :
           sent[d].type = "Done" =>
               /\ d = Len(sent)
               /\ \A a \in AppsOfRun :
                      \E s, t \in 1..(d - 1) :
                          /\ s < t /\ t + 1 < d
                          /\ s \in EventsOf({ "PackageStart" }, a)
                          /\ t \in EventsOf(TerminalTypes, a)
                          /\ sent[t + 1].type = "Progress"
    /\ \A i \in 1..Len(sent) :
           sent[i].type \in TerminalTypes \cup { "PackageStart" } =>
               \E a \in AppsOfRun : sent[i].name = a.name

C13_Witness ==
    /\ RunInstallReturned
    /\ Len(worker.apps) = 3
    /\ OfType("Done") = << Done(1, 1, 1) >>
    /\ Len(OfType("PhaseStart")) = 4

(***************************************************************************)
(* The concrete scenario: run_install on three entries A, B, C, where A    *)
(* and B are Brew formulae and C is installed by another mechanism.        *)
(***************************************************************************)
TableEntry(id) ==
    CHOOSE a \in { CatalogTable[i] : i \in 1..Len(CatalogTable) } : a.id = id

\* the lists <<A, B, C>> with C at any position and A before B
ScenarioLists ==
    { l \in [1..3 -> { TableEntry(id) : id \in { "git", "gh", "vscode", "rustup", "claude-code" } }] :
        /\ Cardinality({ l[i] : i \in 1..3 }) = 3
        /\ Cardinality({ i \in 1..3 : l[i].install_method = "Brew" }) = 2 }

InitScenario ==
    /\ wizard = WizardState_default
    /\ boot_sequence = BootSequence_new
    /\ \E h \in BOOLEAN, apps \in ScenarioLists :
           /\ app = [App_new(h) EXCEPT !.install_receiver = Some("rx")]
           /\ worker = Worker_spawn([has_homebrew |-> h], apps, WizardState_default)
    /\ pc = "none"
    /\ chan = << >>
    /\ sent = << >>
    /\ spawns = << >>
    /\ last = NoOp
    /\ toggled = << >>

SpecScenario == InitScenario /\ [][RunInstall(Outcomes)]_vars

ScenarioA == BatchItems(worker.apps, 1)[1]
ScenarioB == BatchItems(worker.apps, 1)[2]
ScenarioC == (BatchItems(worker.apps, 2) \o BatchItems(worker.apps, 3))[1]

\* the result of the first run of a command, TRUE if it ran and exited with 0
RanWith(cmd, ok) ==
    \E i \in 1..Len(spawns) : spawns[i].cmd = cmd /\ spawns[i].ok = ok

\* the processes of the three items ended as the scenario says: A was not
\* installed and its install succeeded, B was installed, C was not installed
\* and its install exited with code 1 and "permission denied" on stderr
ScenarioHappened ==
    /\ RunInstallReturned
    /\ BootstrapPassed
    /\ RanWith(IsInstalledCommand(ScenarioA), FALSE)
    /\ RanWith(BrewInstallCommand(ScenarioA), TRUE)
    /\ RanWith(IsInstalledCommand(ScenarioB), TRUE)
    /\ IF ScenarioC.install_method = "BrewCask"
       THEN /\ RanWith(IsInstalledCommand(ScenarioC), FALSE)
            /\ RanWith(BrewInstallCommand(ScenarioC), FALSE)
       ELSE RanWith(IF ScenarioC.install_method = "Script"
                    THEN << "/bin/bash", "-c", "curl -fsSL", ScenarioC.pkg, "| sh" >>
                    ELSE install_app_command(ScenarioC), FALSE)

NonLogEvents == LET NotLog(e) == e.type # "Log" IN SelectSeq(sent, NotLog)

ScenarioEvents(error) ==
    << PhaseStart(BatchPhaseName[1]),
       PackageStart(ScenarioA.name, InstallMethod_command(ScenarioA)),
       PackageSuccess(ScenarioA.name),
       Progress(1, 3),
       PackageStart(ScenarioB.name, InstallMethod_command(ScenarioB)),
       PackageSkipped(ScenarioB.name, "Already installed"),
       Progress(2, 3),
       PhaseStart(BatchPhaseName[BatchOf(ScenarioC)]),
       PackageStart(ScenarioC.name, InstallMethod_command(ScenarioC)),
       PackageFailed(ScenarioC.name, error),
       Progress(3, 3),
       Done(1, 1, 1) >>

\* C14 as stated: in the scenario the events of run_install other than Log
\* are exactly the twelve events from PhaseStart of the first batch to
\* Done(1,1,1), with the error text "permission denied".
C14_ScenarioSequence ==
    ScenarioHappened => NonLogEvents = ScenarioEvents(<< "permission denied" >>)

\* C14, amended: in the scenario the events of run_install other than Log
\* are PhaseStart("Homebrew Bootstrap") followed by the twelve events of the
\* claim; the error text of C is "permission denied" when C is installed by
\* run_command and "Script failed: permission denied" when C is a Script.
C14_ScenarioSequenceWithBootstrap ==
    ScenarioHappened =>
        NonLogEvents =
            << PhaseStart("Homebrew Bootstrap") >> \o
            ScenarioEvents(IF ScenarioC.install_method = "Script"
                           THEN << "Script failed: ", << "permission denied" >> >>
                           ELSE << "permission denied" >>)

C14_Witness ==
    /\ ScenarioHappened
    /\ ScenarioC.install_method = "Npm"
    /\ worker.apps[1] = ScenarioC
    /\ ~ worker.has_homebrew

(***************************************************************************)
(* Properties of the abort and of the message folding (Spec)               *)
(***************************************************************************)
AbortMarker == << "[ABORT] Installation interrupted by user" >>

CompleteMarker == << "[COMPLETE] Installation finished!" >>

CountIn(log, entry) == Cardinality({ i \in 1..Len(log) : log[i] = entry })

Aborted == CountIn(app.install_log, AbortMarker) > 0

\* a CONTROL-c key read by the loop while an installation is shown as running
AbortStep ==
    /\ wizard.phase = "Install"
    /\ app.is_installing
    /\ PollKey({ [key |-> Char("c"), ctrl |-> TRUE] })

\* C15: the step that handles CONTROL-c while phase = Install and
\* is_installing drops the receiver, clears is_installing, appends the abort
\* marker to the log and sets the phase to Complete, and leaves the worker
\* and its thread handle as they are; in every step after the abort,
\* whatever the worker does and also once it has finished, the phase stays
\* Complete, is_installing stays false, the thread is not joined and no
\* completion marker or second abort marker is logged.
C15_AbortDetaches ==
    [][ /\ AbortStep =>
            /\ app'.install_receiver = NoneV
            /\ ~ app'.is_installing
            /\ app'.install_log = Append(app.install_log, AbortMarker)
            /\ wizard'.phase = "Complete"
            /\ worker' = worker
            /\ app'.install_thread = app.install_thread
            /\ ~ app'.should_quit
        /\ Aborted =>
            /\ wizard.phase = "Complete" /\ wizard'.phase = "Complete"
            /\ ~ app'.is_installing
            /\ app'.install_receiver = NoneV
            /\ app'.install_thread # NoneV
            /\ app'.install_log = app.install_log
            /\ CountIn(app.install_log, AbortMarker) = 1
            /\ CountIn(app.install_log, CompleteMarker) = 0
            /\ pc' # "thread_check" ]_vars

\* the worker finished after the abort and the loop has run on since
C15_Witness ==
    /\ Aborted
    /\ worker.pc = "finished"
    /\ pc = "install"
    /\ wizard.phase = "Complete"
    /\ app.install_thread # NoneV

\* the thread check of an iteration finds the worker finished
FinishStep ==
    /\ thread_done
    /\ ThreadCheck

\* C16: the thread check is only reached in phase Install with is_installing
\* true; a thread check that finds the worker finished takes and joins the
\* thread handle, drops the receiver, clears is_installing, sets
\* install_progress to 100, logs the completion marker and advances the
\* phase from Install to Complete; no run logs the completion marker twice,
\* and after it no thread check is reached again.
C16_FinishOnce ==
    [][ /\ pc = "thread_check" => (wizard.phase = "Install" /\ app.is_installing)
        /\ FinishStep =>
            /\ app'.install_thread = NoneV
            /\ app'.install_receiver = NoneV
            /\ ~ app'.is_installing
            /\ app'.install_progress = 100
            /\ wizard.phase = "Install" /\ wizard'.phase = "Complete"
            /\ CountIn(app.install_log, CompleteMarker) = 0
            /\ app'.install_log = Append(app.install_log, CompleteMarker)
        /\ CountIn(app.install_log, CompleteMarker) > 0 =>
            /\ pc' # "thread_check"
            /\ wizard'.phase = "Complete"
            /\ app'.install_log = app.install_log
            /\ app'.install_thread = NoneV ]_vars

C16_Witness ==
    /\ CountIn(app.install_log, CompleteMarker) = 1
    /\ wizard.phase = "Complete"
    /\ app.install_thread = NoneV
    /\ app.install_progress = 100
    /\ worker.pc = "finished"
    /\ pc = "install"

(***************************************************************************)
(* Properties of run_install's failure handling (SpecExec)                 *)
(***************************************************************************)
\* C17: once run_install has returned, either the bootstrap command failed
\* (and FatalError was sent), or every item of the input list has its
\* PackageStart and its terminal event, whatever items failed, the Done
\* event was sent and the summary accounts for every item.
C17_ItemFailureNeverStops ==
    RunInstallReturned =>
        \/ BootstrapFailed /\ ~ BootstrapPassed
        \/ /\ BootstrapPassed
           /\ \A a \in AppsOfRun :
                  /\ Cardinality(EventsOf({ "PackageStart" }, a)) = 1
                  /\ Cardinality(EventsOf(TerminalTypes, a)) = 1
           /\ Len(OfType("Done")) = 1
           /\ Len(OfType("PackageFailed")) = Len(worker.summary.failed)
           /\ Len(worker.summary.succeeded) + Len(worker.summary.failed)
                  + Len(worker.summary.skipped) = Len(worker.apps)

\* every item of a three-item list failed and the run went on to Done
C17_Witness ==
    /\ RunInstallReturned
    /\ Len(worker.apps) = 3
    /\ Len(worker.summary.failed) = 3
    /\ OfType("Done") = << Done(0, 3, 0) >>

(***************************************************************************)
(* The application under fair scheduling: the loop keeps iterating (each   *)
(* iteration polls for at most tick_rate) and the install thread keeps     *)
(* running (every process it starts terminates).  No key press is assumed. *)
(***************************************************************************)
LoopStep ==
    \/ PollKey(KeyEvents)
    \/ PollTimeout
    \/ Tick
    \/ TickNotDue
    \/ InstallSectionSkipped
    \/ DrainOne
    \/ DrainEnd
    \/ ThreadCheck

FairSpec ==
    /\ Spec
    /\ WF_vars(LoopStep)
    /\ WF_vars(InstallThread(Outcomes, Machines))

\* C18, the progress half: under FairSpec a run confirmed at Review
\* eventually reaches phase Complete, whether items succeed, fail or are
\* skipped.
C18_ReachesComplete == (worker.pc # "none") ~> (wizard.phase = "Complete")

\* C18 as stated, the final result: at Complete of a run that was not
\* aborted, the failure counter of the UI equals the number of items that
\* failed.
C18_FailureCounterAtComplete ==
    (wizard.phase = "Complete" /\ ~ Aborted) =>
        app.install_failed = Len(OfType("PackageFailed"))

(***************************************************************************)
(* Properties of the channel between the install thread and the loop       *)
(***************************************************************************)
\* the fold of a sequence of messages, first to last
RECURSIVE FoldSeq(_, _)
FoldSeq(a, msgs) ==
    IF msgs = << >> THEN a ELSE FoldSeq(Fold(a, Head(msgs)), Tail(msgs))

\* the fields of App that the fold writes; the log without the two markers
\* that the loop itself appends
FoldedFields(a) ==
    << a.install_total, a.install_completed, a.install_succeeded, a.install_failed,
       a.install_skipped, a.current_package, a.error_message,
       SelectSeq(a.install_log, LAMBDA l : l # AbortMarker /\ l # CompleteMarker) >>

\* App as start_installation left it
AppAtStart ==
    start_installation_app(App_new(worker.has_homebrew), worker.wizard_clone[1])

FoldedPrefix(k) == FoldedFields(FoldSeq(AppAtStart, SubSeq(sent, 1, k)))

DoneFolded ==
    \E d \in { sent[i] : i \in { j \in 1..Len(sent) : sent[j].type = "Done" } } :
        CountIn(app.install_log, << "[DONE]", d.succeeded, d.failed, d.skipped >>) > 0

\* C19: at every moment of a run the fields and the log that the loop has
\* folded are the fold, in emission order, of a prefix of the events the
\* worker sent, every event of the prefix folded once; while the receiver
\* exists the events sent are exactly the folded prefix followed by the
\* content of the channel; and when the Done event has been folded, the
\* counters hold the counts of every item it summarizes.
C19_FoldedInOrder ==
    worker.pc # "none" =>
        /\ \E k \in 0..Len(sent) : FoldedFields(app) = FoldedPrefix(k)
        /\ app.install_receiver # NoneV =>
               /\ Len(chan) <= Len(sent)
               /\ chan = SubSeq(sent, Len(sent) - Len(chan) + 1, Len(sent))
               /\ FoldedFields(app) = FoldedPrefix(Len(sent) - Len(chan))
        /\ DoneFolded =>
               LET done == OfType("Done")[1]
               IN  /\ app.install_succeeded = done.succeeded
                   /\ app.install_failed = done.failed
                   /\ app.install_skipped = done.skipped
                   /\ app.install_completed = Len(worker.apps)

C19_Witness ==
    /\ DoneFolded
    /\ app.install_failed = 1
    /\ app.install_receiver # NoneV
    /\ chan # << >>

(***************************************************************************)
(* run_install with the receiver dropped at any moment: the application    *)
(* is in phase Install right after start_installation, the worker runs     *)
(* run_install, and the user may press CONTROL-c at any point.             *)
(***************************************************************************)
InitDetach ==
    /\ boot_sequence = BootSequence_skip(BootSequence_new)
    /\ \E h \in BOOLEAN, sel \in SUBSET CatalogIds :
           LET w == [WizardState_default EXCEPT !.selected_apps = sel,
                                                !.phase = "Review"]
           IN  /\ wizard = advance(w)
               /\ app = start_installation_app(App_new(h), w)
               /\ worker = Worker_spawn([has_homebrew |-> h], get_selected_apps(w), w)
    /\ pc = "poll"
    /\ chan = << >>
    /\ sent = << >>
    /\ spawns = << >>
    /\ last = NoOp
    /\ toggled = << >>

SpecDetach ==
    InitDetach /\ [][ \/ RunInstall(ExecOutcomes)
                      \/ PollKey({ [key |-> Char("c"), ctrl |-> TRUE] }) ]_vars

\* the names of the items in the order run_install processes them
ProcessingOrder ==
    LET items == BatchItems(worker.apps, 1) \o BatchItems(worker.apps, 2)
                     \o BatchItems(worker.apps, 3)
    IN  [i \in 1..Len(items) |-> items[i].name]

NamesOf(events) == [i \in 1..Len(events) |-> events[i].name]

TerminalEvents == LET Is(e) == e.type \in TerminalTypes IN SelectSeq(sent, Is)

\* C20: once the receiver is dropped nothing the worker sends is delivered
\* (the channel stays empty); whether or not the receiver exists, the worker
\* always has a next step until run_install returns; and when run_install
\* has returned after a passed bootstrap, the items were started and ended
\* one by one in processing order, Done was sent to the closed channel and
\* the returned summary accounts for every item.
C20_WorkerIgnoresClosedChannel ==
    /\ app.install_receiver = NoneV => chan = << >>
    /\ ~ RunInstallReturned => ENABLED RunInstall(ExecOutcomes)
    /\ NamesOf(OfType("PackageStart")) =
           SubSeq(ProcessingOrder, 1, Len(OfType("PackageStart")))
    /\ NamesOf(TerminalEvents) = SubSeq(ProcessingOrder, 1, Len(TerminalEvents))
    /\ (RunInstallReturned /\ BootstrapPassed) =>
           /\ NamesOf(TerminalEvents) = ProcessingOrder
           /\ Len(OfType("Done")) = 1
           /\ Len(worker.summary.succeeded) + Len(worker.summary.failed)
                  + Len(worker.summary.skipped) = Len(worker.apps)

\* the receiver was dropped before the first of three items was started,
\* and the worker is about to start it
C20_Witness ==
    /\ app.install_receiver = NoneV
    /\ Aborted
    /\ worker.pc = "item_start"
    /\ worker.completed = 0
    /\ Len(worker.apps) = 3
    /\ Len(sent) > 0

(***************************************************************************)
(* Properties of run_install's batches and summary (SpecExec)              *)
(***************************************************************************)
\* C21: with an empty item list run_install never sends an item or
\* Progress event, and once it has returned after a passed bootstrap its
\* events other than Log are the PhaseStart of the bootstrap phase followed
\* by Done(0, 0, 0), and its summary has three empty collections.
C21_EmptyList ==
    worker.apps = << >> =>
        /\ \A i \in 1..Len(sent) : sent[i].type \notin (ItemEventTypes \ { "Done" })
        /\ (RunInstallReturned /\ BootstrapPassed) =>
               /\ NonLogEvents = << PhaseStart("Homebrew Bootstrap"), Done(0, 0, 0) >>
               /\ worker.summary = InstallSummary_default

C21_Witness ==
    /\ worker.apps = << >>
    /\ worker.total = 0
    /\ RunInstallReturned
    /\ OfType("Done") = << Done(0, 0, 0) >>
    /\ ~ worker.has_homebrew

(***************************************************************************)
(* run_install on any list of up to MaxList distinct catalog entries, in   *)
(* any order                                                               *)
(***************************************************************************)
InputLists ==
    UNION { { l \in [1..n -> { CatalogTable[i] : i \in 1..Len(CatalogTable) }] :
                \A i, j \in 1..n : l[i] = l[j] => i = j }
            : n \in 0..MaxList }

InitLists ==
    /\ wizard = WizardState_default
    /\ boot_sequence = BootSequence_new
    /\ \E h \in BOOLEAN, apps \in InputLists :
           /\ app = [App_new(h) EXCEPT !.install_receiver = Some("rx")]
           /\ worker = Worker_spawn([has_homebrew |-> h], apps, WizardState_default)
    /\ pc = "none"
    /\ chan = << >>
    /\ sent = << >>
    /\ spawns = << >>
    /\ last = NoOp
    /\ toggled = << >>

SpecLists == InitLists /\ [][RunInstall(Outcomes)]_vars

\* the place of a mechanism in the order of the claim: Brew, BrewCask, other
MechanismRank(a) ==
    IF a.install_method = "Brew" THEN 1
    ELSE IF a.install_method = "BrewCask" THEN 2 ELSE 3

\* the position of the entry named n in the input list
InputPos(n) == CHOOSE i \in 1..Len(worker.apps) : worker.apps[i].name = n

\* the entry at position p of the input list comes before the entry at
\* position q in the claimed order
ClaimedBefore(p, q) ==
    \/ MechanismRank(worker.apps[p]) < MechanismRank(worker.apps[q])
    \/ MechanismRank(worker.apps[p]) = MechanismRank(worker.apps[q]) /\ p < q

PhaseStartsOf(k) ==
    LET IsBatch(e) == e.phase = BatchPhaseName[k]
    IN  Len(SelectSeq(OfType("PhaseStart"), IsBatch))

\* C22: the PackageStart events of run_install name items of the input
\* list, each at most once, all Brew items before all BrewCask items before
\* all other items and within one mechanism class in input order; an item is
\* started only when every item before it in that order has been started;
\* the PhaseStart of a batch is sent at most once and only when the batch
\* has an item; and once run_install has returned after a passed bootstrap
\* every item was started and ended exactly once and every non-empty batch
\* had its PhaseStart.
C22_BatchOrder ==
    LET starts == NamesOf(OfType("PackageStart"))
        names == { worker.apps[i].name : i \in 1..Len(worker.apps) }
    IN  /\ \A i \in 1..Len(starts) : starts[i] \in names
        /\ LET pos == [i \in 1..Len(starts) |-> InputPos(starts[i])]
           IN  /\ \A i, j \in 1..Len(pos) : i < j => ClaimedBefore(pos[i], pos[j])
               /\ \A i \in 1..Len(pos) : \A p \in 1..Len(worker.apps) :
                      ClaimedBefore(p, pos[i]) => \E j \in 1..(i - 1) : pos[j] = p
        /\ \A k \in 1..3 :
               PhaseStartsOf(k) <=
                   IF \E a \in AppsOfRun : MechanismRank(a) = k THEN 1 ELSE 0
        /\ (RunInstallReturned /\ BootstrapPassed) =>
               /\ Len(starts) = Len(worker.apps)
               /\ \A a \in AppsOfRun :
                      /\ Cardinality(EventsOf({ "PackageStart" }, a)) = 1
                      /\ Cardinality(EventsOf(TerminalTypes, a)) = 1
               /\ \A k \in 1..3 :
                      PhaseStartsOf(k) =
                          IF \E a \in AppsOfRun : MechanismRank(a) = k THEN 1 ELSE 0

\* an input list in the reverse of the processing order was processed
C22_Witness ==
    /\ RunInstallReturned
    /\ BootstrapPassed
    /\ worker.apps = << TableEntry("rustup"), TableEntry("gh"), TableEntry("git") >>
    /\ NamesOf(OfType("PackageStart")) =
           << TableEntry("gh").name, TableEntry("git").name, TableEntry("rustup").name >>
    /\ PhaseStartsOf(2) = 0

\* the names held by the three collections of the summary, as a bag would
SummaryNames ==
    worker.summary.succeeded
        \o [i \in 1..Len(worker.summary.failed) |-> worker.summary.failed[i][1]]
        \o [i \in 1..Len(worker.summary.skipped) |-> worker.summary.skipped[i][1]]

\* C23: a Done event is the last event of run_install, sent after the
\* terminal and Progress events of every item of every batch; its three
\* counts are the sizes of the three collections of the returned summary;
\* and the name of every item of the list appears exactly once in the three
\* collections taken together, which hold no other name.
C23_DoneMatchesSummary ==
    /\ \A d \in 1..Len(sent) :
           sent[d].type = "Done" =>
               /\ d = Len(sent)
               /\ Len(TerminalEvents) = Len(worker.apps)
               /\ Len(OfType("Progress")) = Len(worker.apps)
               /\ sent[d] = Done(Len(worker.summary.succeeded),
                                 Len(worker.summary.failed),
                                 Len(worker.summary.skipped))
    /\ (RunInstallReturned /\ BootstrapPassed) =>
           /\ Len(OfType("Done")) = 1
           /\ Len(SummaryNames) = Len(worker.apps)
           /\ \A a \in AppsOfRun :
                  Cardinality({ i \in 1..Len(SummaryNames) : SummaryNames[i] = a.name }) = 1

C23_Witness ==
    /\ RunInstallReturned
    /\ OfType("Done") = << Done(1, 1, 1) >>
    /\ Len(worker.summary.succeeded) = 1
    /\ Len(worker.summary.failed) = 1
    /\ Len(worker.summary.skipped) = 1
    /\ worker.summary.failed[1][1] = TableEntry("rustup").name

(***************************************************************************)
(* Properties of the install thread inside the application, continued      *)
(***************************************************************************)
\* a step of the install thread
WorkerStep == worker.pc # "none" /\ InstallThread(Outcomes, Machines)

\* C24: the step that confirms Review hands the thread the list
\* get_selected_apps() of that moment and a copy of the wizard state of that
\* moment; afterwards the thread's list and copy never change; and a step of
\* the thread leaves the wizard state (phase, identity, shell config,
\* selection), the boot sequence, every field of App and the loop's position
\* as they are: it only appends to the channel.
C24_WorkerUsesSnapshot ==
    [][ /\ (worker.pc = "none" /\ worker'.pc # "none") =>
               /\ worker'.apps = get_selected_apps(wizard)
               /\ worker'.wizard_clone = Some(wizard)
               /\ worker'.total = Len(get_selected_apps(wizard))
               /\ app'.install_total = worker'.total
        /\ worker.pc # "none" =>
               /\ worker'.apps = worker.apps
               /\ worker'.wizard_clone = worker.wizard_clone
               /\ worker'.total = worker.total
        /\ WorkerStep =>
               /\ wizard' = wizard
               /\ boot_sequence' = boot_sequence
               /\ app' = app
               /\ pc' = pc
               /\ chan' \in { chan, chan \o SubSeq(sent', Len(sent) + 1, Len(sent')) } ]_vars

C24_Witness ==
    /\ worker.pc = "finished"
    /\ Len(worker.apps) = 1
    /\ worker.apps = get_selected_apps(worker.wizard_clone[1])
    /\ worker.wizard_clone[1].phase = "Review"
    /\ wizard.phase = "Complete"

(***************************************************************************)
(* Properties of run_install's event stream on any input list (SpecLists)  *)
(***************************************************************************)
\* the items in flight after the first n events: started and not yet ended
InFlight(n) ==
    { name \in { sent[i].name : i \in { j \in 1..n : sent[j].type = "PackageStart" } } :
        ~ \E t \in 1..n : sent[t].type \in TerminalTypes /\ sent[t].name = name }

\* C25: after every event of the stream at most one item is in flight; a
\* PackageStart is sent only when no item is in flight, and a terminal event
\* is that of the one item in flight.  Every step of run_install sends at
\* most one event, so every prefix of the stream is the stream of a reachable
\* state, and the property is stated of the newest event.
C25_OneItemInFlight ==
    LET n == Len(sent)
    IN  n > 0 =>
            /\ Cardinality(InFlight(n)) <= 1
            /\ sent[n].type = "PackageStart" => InFlight(n - 1) = { }
            /\ sent[n].type \in TerminalTypes => InFlight(n - 1) = { sent[n].name }

C25_Witness ==
    /\ Len(OfType("PackageStart")) = 3
    /\ Len(TerminalEvents) = 2
    /\ Cardinality(InFlight(Len(sent))) = 1
    /\ sent[Len(sent)].type = "Log"

(***************************************************************************)
(* main.rs: the per-phase input handlers under the navigation keys         *)
(***************************************************************************)
\* the keys that move between fields, rows and tabs or cycle a value
NavKeys ==
    { Key(c) : c \in { "Tab", "BackTab", "Up", "Down", "Left", "Right", "Enter" } }
    \cup { Char(c) : c \in { "h", "j", "k", "l" } }

\* a phase with a form or a list has just been entered: advance() and
\* go_back() leave cursor_position and scroll_offset at zero
InitKeys ==
    /\ \E p \in { "Identity", "Shell", "DevTools", "Apps" } :
           wizard = [WizardState_default EXCEPT !.phase = p]
    /\ boot_sequence = BootSequence_new
    /\ app = App_new(TRUE)
    /\ pc = "none"
    /\ worker = Worker_none
    /\ chan = << >>
    /\ sent = << >>
    /\ spawns = << >>
    /\ last = NoOp
    /\ toggled = << >>

\* handle_key with a navigation key; Enter is pressed only where it moves to
\* the next field of the identity form, and no character is typed into that
\* form.  last.self is the wizard before the call.
PressKey ==
    \E key \in NavKeys :
        /\ key.code = "Enter" => (wizard.phase = "Identity" /\ wizard.input_field < 3)
        /\ key.code = "Char" => wizard.phase # "Identity"
        /\ handle_key_phase(key)
        /\ last' = [op |-> "handle_key", arg |-> Some(key), ret |-> NoneV,
                    self |-> wizard]
        /\ UNCHANGED << pc, toggled >>

SpecKeys == InitKeys /\ [][PressKey]_vars

\* the option lists of the four rows of the Shell phase
ShellRowCount(row) ==
    CASE row = 0 -> Len(ShellChoice_all)
      [] row = 1 -> Len(PromptChoice_all)
      [] row = 2 -> Len(TerminalChoice_all)
      [] row = 3 -> Len(MultiplexerChoice_all)

\* the index of the value a row of the Shell phase shows
ShellRowIndex(w, row) ==
    CASE row = 0 -> Position(ShellChoice_all, w.shell_config.shell)
      [] row = 1 -> Position(PromptChoice_all, w.shell_config.prompt)
      [] row = 2 -> Position(TerminalChoice_all, w.shell_config.terminal)
      [] row = 3 -> IF w.shell_config.multiplexer = NoneV
                    THEN Position(MultiplexerChoice_all, "None")
                    ELSE Position(MultiplexerChoice_all, w.shell_config.multiplexer[1])

WrapForward(i, n) == (i + 1) % n
WrapBackward(i, n) == (i + n - 1) % n

PressedIn(phase) ==
    /\ last.op = "handle_key"
    /\ last.self.phase = phase

LastKeyIs(code, chars) == IsKey(last.arg[1], code, chars)

\* what the claim says of the form fields, of the cycled values and of the
\* category tabs of the Apps phase
WrappingHolds ==
    /\ PressedIn("Identity") =>
           /\ (LastKeyIs("Tab", {}) \/ LastKeyIs("Down", {}) \/ LastKeyIs("Enter", {})) =>
                  wizard.input_field = WrapForward(last.self.input_field, 4)
           /\ (LastKeyIs("BackTab", {}) \/ LastKeyIs("Up", {})) =>
                  wizard.input_field = WrapBackward(last.self.input_field, 4)
           /\ (last.self.input_field = 3 /\ LastKeyIs("Right", {})) =>
                  Position(SetupType_all, wizard.identity.setup_type)
                      = WrapForward(Position(SetupType_all,
                                             last.self.identity.setup_type),
                                    Len(SetupType_all))
           /\ (last.self.input_field = 3 /\ LastKeyIs("Left", {})) =>
                  Position(SetupType_all, wizard.identity.setup_type)
                      = WrapBackward(Position(SetupType_all,
                                              last.self.identity.setup_type),
                                     Len(SetupType_all))
           /\ wizard.input_field \in 0..3
    /\ PressedIn("Shell") =>
           LET row == last.self.cursor_position
           IN  /\ LastKeyIs("Right", { "l" }) =>
                      ShellRowIndex(wizard, row)
                          = WrapForward(ShellRowIndex(last.self, row), ShellRowCount(row))
               /\ LastKeyIs("Left", { "h" }) =>
                      ShellRowIndex(wizard, row)
                          = WrapBackward(ShellRowIndex(last.self, row), ShellRowCount(row))
               /\ wizard.cursor_position \in 0..3
    /\ PressedIn("Apps") =>
           /\ LastKeyIs("Tab", {}) =>
                  wizard.scroll_offset
                      = WrapForward(last.self.scroll_offset, Len(Category_all))
           /\ LastKeyIs("BackTab", {}) =>
                  wizard.scroll_offset
                      = WrapBackward(last.self.scroll_offset, Len(Category_all))
           /\ wizard.scroll_offset \in 0..(Len(Category_all) - 1)
    /\ PressedIn("DevTools") =>
           /\ LastKeyIs("Tab", {}) =>
                  wizard.scroll_offset
                      = WrapForward(last.self.scroll_offset, Len(DevToolsCategories))
           /\ wizard.scroll_offset \in 0..(Len(DevToolsCategories) - 1)

BootKeyStep ==
    /\ wizard.phase = "Boot"
    /\ pc = "poll"
    /\ pc' = "tick_after_key"
    /\ app'.should_quit = app.should_quit

\* a step of run_app's loop that ends the key section: app.tick() when the
\* tick is due
TickSectionStep ==
    /\ pc \in { "poll", "tick_after_key" }
    /\ pc' = "install"

\* C27: a key other than CONTROL-c pressed in phase Boot marks the intro
\* complete at once and leaves the phase alone; a tick that finds or makes
\* the intro complete in phase Boot advances the wizard to Identity, with no
\* confirming input; and phase Boot is left by such a tick only.
C27_BootAdvancesItself ==
    [][ /\ BootKeyStep =>
               /\ boot_sequence'.complete
               /\ wizard'.phase = "Boot"
        /\ (wizard.phase = "Boot" /\ pc = "poll" /\ pc' = "install") =>
               /\ boot_sequence.complete => wizard'.phase = "Identity"
               /\ boot_sequence'.complete => wizard'.phase = "Identity"
        /\ (wizard.phase = "Boot" /\ boot_sequence.complete /\ TickSectionStep) =>
               \/ wizard'.phase = "Identity"
               \/ wizard' = wizard /\ pc = "tick_after_key"
        /\ (wizard.phase = "Boot" /\ wizard'.phase # "Boot") =>
               /\ wizard'.phase = "Identity"
               /\ TickSectionStep
               /\ boot_sequence'.complete
      ]_vars

\* a key was pressed in phase Boot before the first message was typed out,
\* and the tick that followed advanced the wizard to Identity
C27_Witness ==
    /\ wizard.phase = "Identity"
    /\ boot_sequence.complete
    /\ pc = "install"
    /\ wizard = advance(WizardState_default)
    /\ app.install_log = << >>

\* C28: once the boot sequence is complete it stays complete and is not
\* started again, whatever the step: a go_back() that returns the wizard to
\* phase Boot leaves the boot sequence as it was, and the wizard leaves Boot
\* again with the next tick.
C28_IntroNeverReplays ==
    [][ /\ boot_sequence.complete => boot_sequence' = boot_sequence
        /\ (wizard.phase # "Boot" /\ wizard'.phase = "Boot") =>
               /\ wizard.phase = "Identity"
               /\ boot_sequence'.complete
               /\ boot_sequence'.current_typewriter = NoneV
               /\ boot_sequence'.stage = Len(BootMessageLens)
      ]_vars

\* Esc in the Identity form, after Tab moved to its second field, brought
\* the wizard back to phase Boot with the boot sequence complete
C28_Witness ==
    /\ wizard.phase = "Boot"
    /\ wizard.input_field = 1
    /\ boot_sequence.complete
    /\ boot_sequence.current_typewriter = NoneV
    /\ pc = "tick_after_key"

(***************************************************************************)
(* executor.rs: the result of one installer invocation, as a function of   *)
(* the install method and of what the process returned                     *)
(***************************************************************************)
InstallMethods ==
    { "Brew", "BrewCask", "Cargo", "Npm", "Pip", "Go", "Script", "Manual", "Apt" }

\* texts of at most MaxText pieces in which every run of characters is one
\* piece
StderrTexts ==
    { t \in UNION { [1..n -> { "error", "detail", NL }] : n \in 0..MaxText } :
          \A i \in 1..(Len(t) - 1) : t[i] = NL \/ t[i + 1] = NL }

ExitCodes == { 0, 1, 2 }

\* an installer process has run and has returned
InitOutput ==
    /\ wizard = WizardState_default
    /\ boot_sequence = BootSequence_new
    /\ app = App_new(TRUE)
    /\ pc = "none"
    /\ worker = Worker_none
    /\ chan = << >>
    /\ sent = << >>
    /\ spawns = << >>
    /\ \E m \in InstallMethods, c \in ExitCodes, e \in StderrTexts :
           last = [op |-> "output",
                   arg |-> Some([method |-> m,
                                 out |-> [spawned |-> TRUE, code |-> c,
                                          stdout |-> << >>, stderr |-> e]]),
                   ret |-> NoneV]
    /\ toggled = << >>

\* install_app turns the output into its Result
InstallAppResult ==
    /\ last.op = "output"
    /\ last' = [last EXCEPT
           !.op = "install_app",
           !.ret = Some(install_app_result(last.arg[1].method, last.arg[1].out))]
    /\ UNCHANGED << wizard, toggled, appVars >>

SpecOutput == InitOutput /\ [][InstallAppResult]_vars

\* the error text the claim gives for a process that exited with a code
\* other than zero
ClaimedError(o) ==
    IF o.stderr = << >>
    THEN << "exited with code ", << ToString(o.code) >> >>
    ELSE NonEmptyLines(o.stderr)[Len(NonEmptyLines(o.stderr))]

\* C29 as stated: exit status zero is a success; any other exit status is
\* a failure whose error is the last non-empty line of standard error, or
\* "exited with code N" when standard error is empty.
C29_ExitClassification ==
    last.op = "install_app" =>
        LET o == last.arg[1].out
            res == last.ret[1]
        IN  /\ o.code = 0 => res = Ok
            /\ o.code # 0 =>
                   /\ ~ res.ok
                   /\ (o.stderr = << >> \/ NonEmptyLines(o.stderr) # << >>) =>
                          ClaimedError(o) = res.err

\* the command run_install runs to install a
InstallCommandOf(a) ==
    IF a.install_method = "Script"
    THEN << "/bin/bash", "-c", "curl -fsSL", a.pkg, "| sh" >>
    ELSE install_app_command(a)

\* the error text of an installer process that could not be started
SpawnFailureError(e) ==
    /\ Len(e) > 0
    /\ e[1] \in { "Failed to run ", "Failed to run script: " }

SpawnFailureEvents ==
    { i \in 1..Len(sent) :
          sent[i].type = "PackageFailed" /\ SpawnFailureError(sent[i].error) }

\* C30: an installer process that cannot be started is an item failure like
\* a non-zero exit: its PackageFailed event is recorded in summary.failed
\* and is followed by Progress; FatalError is never sent once an item was
\* started; and when run_install has returned, every item whose install
\* command failed, started or not, has its PackageFailed event, every item
\* has a terminal event and Done was sent.
C30_SpawnFailureIsItemFailure ==
    /\ \A i \in SpawnFailureEvents :
           /\ \E j \in 1..Len(worker.summary.failed) :
                  worker.summary.failed[j] = << sent[i].name, sent[i].error >>
           /\ IF i = Len(sent)
              THEN worker.pc = "item_progress"
              ELSE sent[i + 1].type = "Progress"
    /\ OfType("FatalError") # << >> => OfType("PackageStart") = << >>
    /\ (RunInstallReturned /\ OfType("FatalError") = << >>) =>
           /\ \A a \in AppsOfRun :
                  /\ RanWith(InstallCommandOf(a), FALSE) =>
                         Cardinality(EventsOf({ "PackageFailed" }, a)) = 1
                  /\ Cardinality(EventsOf(TerminalTypes, a)) = 1
           /\ Len(OfType("Done")) = 1

\* the first item's installer could not be started, the item failed, and
\* the next item was installed before run_install returned with Done(1,1,0)
C30_Witness ==
    /\ RunInstallReturned
    /\ Len(worker.apps) = 2
    /\ \E i \in SpawnFailureEvents :
           /\ sent[i + 1].type = "Progress"
           /\ \E j \in (i + 2)..Len(sent) : sent[j].type = "PackageSuccess"
    /\ OfType("Done") = << Done(1, 1, 0) >>

(***************************************************************************)
(* executor.rs: run_install with processes that write to both streams      *)
(***************************************************************************)
\* a process that exits with 0 and one that exits with 1, each with output
\* that has an empty line
LoudOk ==
    [spawned |-> TRUE, code |-> 0, stdout |-> << "ok", NL, NL, "done", NL >>,
     stderr |-> << "warning", NL >>]

LoudFail ==
    [spawned |-> TRUE, code |-> 1, stdout |-> << "ok", NL >>,
     stderr |-> << "warning", NL, NL, "permission denied", NL >>]

LoudOutcomes == { LoudOk, LoudFail }

SpecLoud == InitExec /\ [][RunInstall(LoudOutcomes)]_vars

\* the index in the stream of the one event of a with a type of types
EventIndex(types, a) == CHOOSE i \in EventsOf(types, a) : TRUE

\* the lines of the Log events sent for item a between its PackageStart and
\* its terminal event, without the line that announces the command
ForwardedLines(a) ==
    LET from == EventIndex({ "PackageStart" }, a)
        to == EventIndex(TerminalTypes, a)
        between == SubSeq(sent, from + 1, to - 1)
        logs == SelectSeq(between, LAMBDA e : e.type = "Log")
    IN  [i \in 1..(Len(logs) - 1) |-> logs[i + 1].line]

\* what the claim has forwarded for a process that returned o
ClaimedLines(o) ==
    LET lines == NonEmptyLines(o.stdout) \o NonEmptyLines(o.stderr)
    IN  [i \in 1..Len(lines) |-> << "  ", lines[i] >>]

\* item a has its terminal event and its installer ran
InstallerRan(a) ==
    /\ EventsOf({ "PackageSuccess", "PackageFailed" }, a) # { }
    /\ \E ok \in BOOLEAN : RanWith(InstallCommandOf(a), ok)

OutputForwarded(a) ==
    LET ok == RanWith(InstallCommandOf(a), TRUE)
        o == IF ok THEN LoudOk ELSE LoudFail
    IN  /\ ForwardedLines(a) = ClaimedLines(o)
        /\ sent[EventIndex(TerminalTypes, a)].type
               = (IF ok THEN "PackageSuccess" ELSE "PackageFailed")

\* C31 as stated: for every item whose installer ran, each non-empty line
\* of the process's standard output and then of its standard error is one
\* Log event, empty lines are dropped, and the item is classified by the
\* exit status alone.
C31_AllOutputForwarded ==
    \A a \in AppsOfRun : InstallerRan(a) => OutputForwarded(a)

\* the same, of the items installed through run_command
C31_RunCommandOutputForwarded ==
    \A a \in AppsOfRun :
        (InstallerRan(a) /\ a.install_method # "Script") => OutputForwarded(a)

(***************************************************************************)
(* main.rs, github.rs: the install thread and the loop of run_app from     *)
(* start_installation on, with no key pressed, on machines where single    *)
(* advisory steps fail                                                     *)
(***************************************************************************)
AdvisoryMachines ==
    { MachineFresh, MachineBroken,
      [MachineFresh EXCEPT !.git = ProcFail],
      [MachineFresh EXCEPT !.git = ProcNoSpawn],
      [MachineFresh EXCEPT !.ssh_keygen = ProcFail],
      [MachineFresh EXCEPT !.mkdir_ok = FALSE],
      [MachineFresh EXCEPT !.ssh_add = ProcFail],
      [MachineFresh EXCEPT !.gh_auth_status = ProcFail],
      [MachineFresh EXCEPT !.gh_key_add = ProcFail],
      [MachineFresh EXCEPT !.ed25519_exists = TRUE] }

\* the state after start_installation with nothing, Git or Rust selected; "gh"
\* is an entry of the whole catalog that the user may have selected as well
InitAdvisory ==
    /\ boot_sequence = BootSequence_skip(BootSequence_new)
    /\ \E h \in BOOLEAN, gh \in BOOLEAN, sel \in { { }, { "git" }, { "rustup" } } :
           LET w == [WizardState_default EXCEPT
                         !.selected_apps = sel \cup (IF gh THEN { "gh" } ELSE { }),
                         !.phase = "Review"]
           IN  /\ wizard = advance(w)
               /\ app = start_installation_app(App_new(h), w)
               /\ worker = Worker_spawn([has_homebrew |-> h], get_selected_apps(w), w)
    /\ pc = "poll"
    /\ chan = << >>
    /\ sent = << >>
    /\ spawns = << >>
    /\ last = NoOp
    /\ toggled = << >>

SpecAdvisory ==
    InitAdvisory
    /\ [][ \/ PollTimeout
           \/ InstallSectionSkipped
           \/ DrainOne
           \/ DrainEnd
           \/ ThreadCheck
           \/ InstallThread(Outcomes, AdvisoryMachines) ]_vars

\* the events sent after run_install returned
AdvisoryEvents ==
    LET ends == { i \in 1..Len(sent) : sent[i].type \in { "Done", "FatalError" } }
    IN  IF ends = { }
        THEN << >>
        ELSE SubSeq(sent, (CHOOSE i \in ends : TRUE) + 1, Len(sent))

HasLog(line) == \E i \in 1..Len(sent) : sent[i].type = "Log" /\ line = sent[i].line

Ran(cmd) == \E ok \in BOOLEAN : RanWith(cmd, ok)

\* generate_ssh_key returned a key path
SshKeyAvailable ==
    \/ HasLog(<< "[SSH] SSH key generated successfully" >>)
    \/ HasLog(<< "[SSH] Existing SSH key found - skipping generation" >>)
    \/ HasLog(<< "[SSH] Existing RSA key found at ~/.ssh/id_rsa - skipping generation" >>)

SetupGithubReturned == worker.pc \in { "generate_configs", "finished" }

UiCounters ==
    << app.install_completed, app.install_succeeded, app.install_failed,
       app.install_skipped >>

\* what C32 says of the events, of the counters and of the end of the run:
\* the advisory steps send PhaseStart and Log events only; folding such an
\* event leaves the four counters alone; the identity step, the key step,
\* the gh step when gh is selected and the signing step when it is opted in
\* have run when setup_github has returned; and the loop iteration that
\* finds the thread finished puts the wizard in Complete.
AdvisoryNeverCounts ==
    /\ \A i \in 1..Len(AdvisoryEvents') :
           AdvisoryEvents'[i].type \in { "PhaseStart", "Log" }
    /\ (chan # << >> /\ chan' = Tail(chan) /\ Head(chan).type \in { "PhaseStart", "Log" }) =>
           UiCounters' = UiCounters
    /\ SetupGithubReturned' =>
           /\ HasLog(<< "[GIT] Configuring git identity..." >>)'
           /\ HasLog(<< "[GIT] Git identity configured" >>)'
           /\ (SshKeyAvailable \/ HasLog(<< "[SSH] Generating ed25519 SSH key..." >>))'
           /\ ("gh" \in wizard.selected_apps => Ran(<< "gh", "--version" >>))'
           /\ (wizard.setup_git_signing => Ran(<< "gpg", "--version" >>))'
           /\ HasLog(<< "[GIT] Git & GitHub setup complete" >>)'
    /\ (pc = "thread_check" /\ worker.pc = "finished" /\ InstallActive) =>
           /\ wizard'.phase = "Complete"
           /\ UiCounters' = UiCounters

\* C32 as stated: whatever fails in the advisory steps, only PhaseStart and
\* Log events are sent, the counters are unchanged, every later step, the
\* ssh-agent step included, still runs, and the wizard reaches Complete.
C32_AdvisoryStepsAllRun ==
    [][ /\ AdvisoryNeverCounts
        /\ SetupGithubReturned' => Ran(<< "ssh-agent", "-s" >>)'
      ]_vars

\* C32, amended: the same, but the ssh-agent step runs exactly when the key
\* step has returned a key path: it is left out when the key could not be
\* generated.
C32_AdvisoryStepsRunExceptAgent ==
    [][ /\ AdvisoryNeverCounts
        /\ SetupGithubReturned' => (Ran(<< "ssh-agent", "-s" >>) <=> SshKeyAvailable)'
      ]_vars

\* ssh-keygen failed, the gh step ran all the same, the events were folded
\* and the wizard is in Complete with the counters of the one installed item
C32_Witness ==
    /\ wizard.phase = "Complete"
    /\ \E i \in 1..Len(sent) :
           /\ sent[i].type = "Log"
           /\ Len(sent[i].line) = 2
           /\ sent[i].line[1] = "  [ERROR] ssh-keygen failed: "
    /\ ~ Ran(<< "ssh-agent", "-s" >>)
    /\ Ran(<< "gh", "--version" >>)
    /\ CountIn(app.install_log, << "[GIT] Git & GitHub setup complete" >>) = 1
    /\ CountIn(app.install_log, CompleteMarker) = 1
    /\ UiCounters = << 1, 1, 0, 0 >>

UpdateCommand == << "brew", "update" >>

\* C33: with Homebrew present the first process of run_install is the
\* update and the bootstrap command never runs; no FatalError is sent;
\* an item fails only when its own install command failed; and when
\* run_install has returned every item was started and ended once and Done
\* was sent, whatever the update did.
C33_UpdateFailureIsIgnored ==
    worker.has_homebrew =>
        /\ spawns # << >> => spawns[1].cmd = UpdateCommand
        /\ ~ Ran(BootstrapCommand)
        /\ OfType("FatalError") = << >>
        /\ \A a \in AppsOfRun :
               EventsOf({ "PackageFailed" }, a) # { } =>
                   RanWith(InstallCommandOf(a), FALSE)
        /\ RunInstallReturned =>
               /\ \A a \in AppsOfRun :
                      /\ Cardinality(EventsOf({ "PackageStart" }, a)) = 1
                      /\ Cardinality(EventsOf(TerminalTypes, a)) = 1
               /\ Len(OfType("Done")) = 1

\* the update failed and all three items were installed all the same
C33_Witness ==
    /\ worker.has_homebrew
    /\ RunInstallReturned
    /\ spawns[1] = [cmd |-> UpdateCommand, ok |-> FALSE]
    /\ Len(worker.apps) = 3
    /\ OfType("Done") = << Done(3, 0, 0) >>

\* C34 as stated: when the loop has dropped the receiver and advanced to
\* Complete without an abort, every event the worker sent has been folded
\* into the counters and the log; the thread check never finds the thread
\* finished while events are unread.
C34_NothingLeftUnread ==
    /\ (wizard.phase = "Complete" /\ ~ Aborted /\ worker.pc # "none") =>
           FoldedFields(app) = FoldedPrefix(Len(sent))
    /\ (pc = "thread_check" /\ thread_done) => chan = << >>

\* the events the loop has received so far, while it holds the receiver
ReceivedEvents == SubSeq(sent, 1, Len(sent) - Len(chan))

\* C35: in every state, so after every folded event, install_completed is
\* the sum of install_succeeded, install_failed and install_skipped and is
\* at most install_total; while the loop holds the receiver it is the number
\* of terminal events received, so the Progress that follows a terminal
\* event counts no item a second time.
C35_CountersAddUp ==
    /\ app.install_completed
           = app.install_succeeded + app.install_failed + app.install_skipped
    /\ app.install_completed <= app.install_total
    /\ (worker.pc # "none" /\ app.install_receiver # NoneV) =>
           app.install_completed
               = Len(SelectSeq(ReceivedEvents, LAMBDA e : e.type \in TerminalTypes))

\* the Progress event that follows the PackageFailed of the one item has
\* just been folded
C35_Witness ==
    /\ worker.pc # "none"
    /\ app.install_receiver # NoneV
    /\ Len(ReceivedEvents) > 1
    /\ ReceivedEvents[Len(ReceivedEvents)] = Progress(1, 1)
    /\ ReceivedEvents[Len(ReceivedEvents) - 1].type = "PackageFailed"
    /\ app.install_completed = 1
    /\ app.install_failed = 1

\* run_app is at the top of its loop or has left it
IterationBoundary == pc \in { "poll", "exited" }

\* C36: at every boundary between two iterations of run_app's loop,
\* is_installing is true exactly when the phase is Install, and the receiver
\* is present exactly when is_installing is true.
C36_InstallingIffInstallPhase ==
    IterationBoundary =>
        /\ app.is_installing <=> wizard.phase = "Install"
        /\ app.install_receiver # NoneV <=> app.is_installing

\* an iteration boundary during the installation, with events waiting
C36_Witness ==
    /\ pc = "poll"
    /\ wizard.phase = "Install"
    /\ app.is_installing
    /\ app.install_receiver # NoneV
    /\ chan # << >>

WorkerSpawned == worker.pc # "none"

\* C37: a worker is spawned only by a step taken in phase Review; once a
\* worker was spawned the phase is Install or Complete and never Review
\* again, the worker keeps its list and its snapshot, the stream of events
\* is only extended, and no step makes a receiver or a thread handle where
\* there was none: no second worker or channel is created.
C37_OneWorkerPerRun ==
    [][ /\ (~ WorkerSpawned /\ WorkerSpawned') =>
               /\ wizard.phase = "Review"
               /\ wizard'.phase = "Install"
        /\ WorkerSpawned =>
               /\ WorkerSpawned'
               /\ wizard.phase \in { "Install", "Complete" }
               /\ wizard'.phase \in { "Install", "Complete" }
               /\ worker'.apps = worker.apps
               /\ worker'.wizard_clone = worker.wizard_clone
               /\ Len(sent') >= Len(sent)
               /\ SubSeq(sent', 1, Len(sent)) = sent
               /\ app.install_receiver = NoneV => app'.install_receiver = NoneV
               /\ app.install_thread = NoneV => app'.install_thread = NoneV
      ]_vars

\* the worker has finished, the wizard is in Complete, and a key was read
\* there
C37_Witness ==
    /\ worker.pc = "finished"
    /\ wizard.phase = "Complete"
    /\ app.install_thread = NoneV
    /\ pc = "tick_after_key"
    /\ ~ app.should_quit

\* a key was read and handled by this step
KeyStep == pc = "poll" /\ pc' = "tick_after_key"

\* the keys that set the quit flag on the completion screen
QuitKey(ev) ==
    \/ ev.ctrl /\ ev.key = Char("c")
    \/ ~ ev.ctrl /\ IsKey(ev.key, "Enter", { "q" })

\* what handle_key does with each key read in phase Complete: Enter, 'q'
\* and CONTROL-c set should_quit, every other key changes nothing
KeysInComplete ==
    (wizard.phase = "Complete" /\ pc = "poll") =>
        \A ev \in KeyEvents :
            ENABLED ( /\ handle_key(ev.key, ev.ctrl)
                      /\ app' = IF QuitKey(ev)
                                THEN [app EXCEPT !.should_quit = TRUE]
                                ELSE app
                      /\ wizard' = wizard
                      /\ boot_sequence' = boot_sequence
                      /\ chan' = chan
                      /\ UNCHANGED << pc, workerVars, last, toggled >> )

\* C38: Complete is absorbing. A step taken in phase Complete leaves the
\* wizard (its phase included), the boot sequence and the channel as they
\* are; it leaves the application fields as they are too, unless it is a
\* key step, which may set should_quit and nothing else; and of the keys
\* read in Complete exactly Enter, 'q' and CONTROL-c set should_quit.
C38_CompleteIsAbsorbing ==
    /\ []KeysInComplete
    /\ [][ wizard.phase = "Complete" =>
               /\ wizard' = wizard
               /\ boot_sequence' = boot_sequence
               /\ chan' = chan
               /\ \/ app' = app
                  \/ /\ KeyStep
                     /\ app' = [app EXCEPT !.should_quit = TRUE]
         ]_vars

\* Complete was reached by an abort, the worker is still running, and a
\* key read in Complete has set the quit flag and ended the loop
C38_Witness ==
    /\ wizard.phase = "Complete"
    /\ Aborted
    /\ worker.pc \notin { "none", "finished" }
    /\ app.should_quit
    /\ pc = "exited"

CtrlC == [key |-> Char("c"), ctrl |-> TRUE]

\* CONTROL-c outside an active install: should_quit is set, nothing else
\* changes
CtrlCQuits ==
    ENABLED ( /\ handle_key(CtrlC.key, CtrlC.ctrl)
              /\ app' = [app EXCEPT !.should_quit = TRUE]
              /\ UNCHANGED << wizard, boot_sequence, chan, workerVars >>
              /\ UNCHANGED << pc, last, toggled >> )

\* CONTROL-c during an active install: the wizard is in Complete, the
\* install is no longer active, should_quit is as it was (false)
CtrlCAborts ==
    ENABLED ( /\ handle_key(CtrlC.key, CtrlC.ctrl)
              /\ wizard'.phase = "Complete"
              /\ ~ app'.is_installing
              /\ app'.should_quit = app.should_quit
              /\ ~ app'.should_quit
              /\ CountIn(app'.install_log, AbortMarker) =
                     CountIn(app.install_log, AbortMarker) + 1
              /\ UNCHANGED << workerVars, pc, last, toggled >> )

CtrlCEffect ==
    /\ pc = "poll" => IF InstallActive THEN CtrlCAborts ELSE CtrlCQuits
    /\ Aborted => ~ InstallActive
    /\ app.should_quit =>
           /\ pc \in { "tick_after_key", "install", "exited" }
           /\ ~ InstallActive

\* C39: CONTROL-c read outside an active install sets should_quit and
\* changes nothing else, and the loop is left at the end of that iteration:
\* the flag stays set, the install section is skipped and no further event
\* is polled. CONTROL-c read during an active install aborts to Complete
\* and leaves should_quit false; the loop goes on, the install is never
\* active again, so the next CONTROL-c is read outside an active install
\* and sets should_quit. (A step of the worker leaves the loop where it is.)
C39_CtrlCExitsInTwoPresses ==
    /\ []CtrlCEffect
    /\ [][ /\ app.should_quit =>
                  /\ app'.should_quit
                  /\ pc = "tick_after_key" => pc' \in { pc, "install" }
                  /\ pc = "install" => pc' \in { pc, "exited" }
                  /\ pc = "exited" => pc' = "exited"
           /\ (Aborted /\ ~ app.should_quit /\ pc = "install") =>
                  pc' \in { pc, "poll" }
           /\ (~ Aborted /\ Aborted') =>
                  /\ KeyStep
                  /\ InstallActive
                  /\ wizard'.phase = "Complete"
                  /\ ~ app'.should_quit
           /\ Aborted => Aborted' /\ ~ InstallActive'
         ]_vars

\* the install was aborted by a first CONTROL-c, the loop went on to poll
\* again, and a later key set should_quit: the loop is left with the abort
\* marker as the newest log line
C39_Witness ==
    /\ pc = "exited"
    /\ app.should_quit
    /\ Aborted
    /\ app.install_log[Len(app.install_log)] = AbortMarker
    /\ wizard.phase = "Complete"

\* the fields the install section of the loop writes
InstallFields(a) ==
    << a.install_completed, a.install_succeeded, a.install_failed,
       a.install_skipped, a.install_total, a.install_progress, a.install_log >>

\* C40: the abort step appends the abort marker and leaves the counters,
\* the total and the progress as they are (progress is not set to 100);
\* from then on no step changes the counters, the total, the progress or
\* the log, whatever the worker still sends, and nothing is put into the
\* channel.
C40_NothingFoldedAfterAbort ==
    [][ /\ (~ Aborted /\ Aborted') =>
               InstallFields(app') =
                   InstallFields([app EXCEPT !.install_log = Append(@, AbortMarker)])
        /\ Aborted =>
               /\ InstallFields(app') = InstallFields(app)
               /\ app'.current_package = app.current_package
               /\ app'.error_message = app.error_message
               /\ chan' = << >>
      ]_vars

\* after the abort the worker went on to the end and sent events that were
\* never folded (more events than the log has lines): the loop is polling,
\* the log ends with the abort marker
\* and the progress is below 100
C40_Witness ==
    /\ Aborted
    /\ pc = "poll"
    /\ worker.pc = "finished"
    /\ Len(sent) > Len(app.install_log)
    /\ app.install_log[Len(app.install_log)] = AbortMarker
    /\ app.install_progress < 100
    /\ app.install_completed < app.install_total

====
